---- MODULE Spec2Model ----
(***************************************************************************)
(* GitHubService (lib/github-service.ts): the rate-limit cache, the two    *)
(* retrying request helpers fetchWithRetry / requestWithRetry, and the     *)
(* POST /api/apply contribution workflow built on them; and the repository *)
(* ranking of lib/deep-analyzer-service.ts.                                *)
(*                                                                         *)
(* One action is one synchronous segment of the JavaScript code, from one  *)
(* await to the next: the event loop runs such a segment without           *)
(* interruption.  Times are in milliseconds (Date.now()); the reset time   *)
(* of a snapshot is in epoch seconds, as GitHub sends it.                  *)
(***************************************************************************)
EXTENDS Integers, Sequences, FiniteSets, TLC

VARIABLES
    now,            \* Date.now(), ms
    rateLimitCache, \* GitHubService.rateLimitCache, or None
    call,           \* the fetchWithRetry / requestWithRetry invocation in progress
    outcome,        \* what that invocation returned or threw
    hist,           \* history of that invocation: requests, sleeps, responses
    wf,             \* the POST /api/apply run
    calls,          \* number of stand-alone invocations started (bounded)
    ticks,          \* number of idle periods (bounded)
    repos,          \* rankReposByImportance: the descriptors passed
    targetRole,     \* rankReposByImportance: the role passed
    limit,          \* rankReposByImportance: the limit passed
    today,          \* Date.now() as calculateRepoImportance reads it, in whole days
    ranked,         \* what the invocations of rankReposByImportance returned, and when
    tree,           \* filterAndPrioritizeFiles: the tree passed
    maxFiles,       \* filterAndPrioritizeFiles: the cap passed
    selected,       \* [items |-> what filterAndPrioritizeFiles returned], or None
    bundle,         \* the getRepoCodeBundle invocation
    gov,            \* invocations that share one service: their positions, the last observation
    writes          \* runs of createOrUpdateFile on one branch, and the file there

rankVars == <<repos, targetRole, limit, today, ranked>>
serviceVars == <<now, rateLimitCache, call, outcome, hist, wf, calls, ticks>>
fileVars == <<tree, maxFiles, selected>>
sharedVars == <<gov, writes>>
vars == <<now, rateLimitCache, call, outcome, hist, wf, calls, ticks,
          repos, targetRole, limit, today, ranked, tree, maxFiles, selected, bundle,
          gov, writes>>

----------------------------------------------------------------------------
(* Bounds of the model *)

MaxCalls == 2   \* invocations of the request helpers in one behaviour
MaxTicks == 1   \* idle periods between invocations
MaxFaultyCalls == 2  \* invocations of one workflow run that meet a failing fetch
MaxRepos == 3   \* descriptors in one list passed to rankReposByImportance
MaxRuns == 2    \* invocations of rankReposByImportance on the same arguments
MaxDays == 1    \* days that pass between those invocations
MaxTree == 3    \* items of one tree passed to filterAndPrioritizeFiles
MaxObservations == 4  \* responses that reach the invocations sharing one service
MaxGovTicks == 2      \* times the clock moves while those invocations run

(* Program constants *)

RATE_LIMIT_THRESHOLD == 10
CACHE_TTL == 60000
DefaultRetries == 3
BackoffUnit == 1000
WaitTimeout == 15000
PollInterval == 1000

----------------------------------------------------------------------------
(* Values *)

None == [none |-> TRUE]
Absent == -1                 \* headers.get(...) === null

\* (remaining, limit) pairs a server reports: the core resource (limit 30 here)
\* and a second resource with its own, smaller limit.
\* The reset time is X-RateLimit-Reset, in epoch seconds.
FullHeaders ==
    {[remaining |-> 0, limit |-> 12, reset |-> 100],
     [remaining |-> 9, limit |-> 12, reset |-> 2],
     [remaining |-> 30, limit |-> 30, reset |-> 100]}

NoHeaders == [remaining |-> Absent, limit |-> Absent, reset |-> Absent]

PartialHeaders ==
    {[remaining |-> Absent, limit |-> 12, reset |-> 100],
     [remaining |-> 0, limit |-> Absent, reset |-> 100],
     [remaining |-> 0, limit |-> 12, reset |-> Absent],
     NoHeaders}

HeaderChoices == FullHeaders \cup PartialHeaders

\* HTTP statuses of a response; Transport stands for fetch() rejecting.
Transport == 0
Statuses == {200, 403, 404, 422, 500}
ReadStatuses == {200, 403, 404, 500}

Ok(status) == status \in 200..299

NoError == [kind |-> "none", status |-> 0, reset |-> Absent, attempt |-> 0]

IdleCall == [pc |-> "idle", kind |-> "none", retries |-> 0, i |-> 0]
NoOutcome == [status |-> "none", err |-> NoError, body |-> None]
\* History of one invocation.  requests: fetches of the target URL; sleeps: the
\* backoff delays; resps: the class of each settled fetch (recorded for the
\* stand-alone invocations); check: how the cached
\* part of checkRateLimit ended; pre: what the cache held when the invocation
\* began; snap: the cache itself at that moment, kept until the first fetch
\* settles; refresh: how getRateLimit() ended; hdr: the headers of the last
\* response.
\* The run of POST /api/apply.  pc names the call the handler awaits; action,
\* baseBranch, prHeadOwner are the handler's variables; sha what createOrUpdateFile found; start and lastError
\* belong to waitForRepoAvailability; pr is the pull request sent; result the
\* HTTP answer.  faulty counts the invocations that met a failing fetch;
\* baseRefStatus is the status with which reading the base ref of the upstream
\* owner failed, refStatus the status with which the ref creation there ended
\* (0 before, 201 for a success); log lists the service methods called and on whose
\* repository.  forkBaseBranch is the handler's variable of that name; lookup
\* tells how the lookup of createOrUpdateFile ended and write is the body of
\* its PUT.
NoWorkflow ==
    [pc |-> "off", action |-> "", baseBranch |-> "", prHeadOwner |-> "",
     forkBaseBranch |-> "", sha |-> "", lookup |-> "", write |-> None,
     start |-> 0, lastError |-> NoError,
     faulty |-> 0, baseRefStatus |-> 0, refStatus |-> 0, log |-> <<>>, pr |-> None, result |-> None]

NoHist ==
    [requests |-> 0, sleeps |-> <<>>, resps |-> <<>>, check |-> "none",
     pre |-> None, snap |-> None, refresh |-> "none", hdr |-> None]

----------------------------------------------------------------------------
(* The rate-limit cache *)

\* now / 1000 > reset
ResetPassed(c, t) == t > c.reset * 1000

\* now - lastChecked < CACHE_TTL
CacheValid(c, t) == t - c.lastChecked < CACHE_TTL

\* checkRateLimit up to its first await: what the cached snapshot decides.
\*   "clear"   the cache is valid and its reset time has passed: drop it, return
\*   "throw"   the cache is valid and remaining is below the threshold
\*   "return"  the cache is valid and within limits
\*   "refresh" no cache, or a stale one: go on to getRateLimit()
checkRateLimitCachedThresholdFirst(c, t) ==
    IF c # None /\ CacheValid(c, t)
    THEN IF c.remaining < RATE_LIMIT_THRESHOLD THEN "throw"
         ELSE IF ResetPassed(c, t) THEN "clear"
         ELSE "return"
    ELSE "refresh"

checkRateLimitCached(c, t) ==
    IF c # None /\ CacheValid(c, t)
    THEN IF ResetPassed(c, t) THEN "clear"
         ELSE IF c.remaining < RATE_LIMIT_THRESHOLD THEN "throw"
         ELSE "return"
    ELSE "refresh"

\* What GET /rate_limit can yield: fetch() rejecting, a body without a usable
\* `rate` object (response.json() rejects, or data.rate is undefined), or the
\* core quota.
RefreshFailures == {[failed |-> "transport"], [failed |-> "badbody"]}
RateBodies ==
    {[remaining |-> 9, limit |-> 30, reset |-> 100],
     [remaining |-> 10, limit |-> 30, reset |-> 100],
     [remaining |-> 9, limit |-> 30, reset |-> 2]}
RefreshOutcomes == RefreshFailures \cup RateBodies

\* getRateLimit: the cache after the call.  A rejection or a TypeError on
\* data.rate happens before the assignment, which leaves the cache alone.
getRateLimitDropsCache(c, out, t) ==
    IF out \in RefreshFailures THEN None
    ELSE [remaining |-> out.remaining, reset |-> out.reset, limit |-> out.limit,
          lastChecked |-> t]

getRateLimit(c, out, t) ==
    IF out \in RefreshFailures THEN c
    ELSE [remaining |-> out.remaining, reset |-> out.reset, limit |-> out.limit,
          lastChecked |-> t]

\* checkRateLimit after getRateLimit(): the second threshold test throws inside
\* the try block whose catch only logs, so every outcome returns normally.
checkRateLimitRefreshed(c, out) ==
    LET thrown == \/ out \in RefreshFailures
                  \/ c # None /\ c.remaining < RATE_LIMIT_THRESHOLD
    IN IF thrown THEN "return"   \* catch (error) { console.warn(...) }
       ELSE "return"

\* A header string is truthy when it is present and not empty; "0" is truthy.
TruthyNumber(h) == h # Absent /\ h # 0

Truthy(h) == h # Absent

updateRateLimitKeepsLimit(c, h, t) ==
    IF Truthy(h.remaining) /\ Truthy(h.reset) /\ Truthy(h.limit)
    THEN IF c = None
         THEN [remaining |-> h.remaining, reset |-> h.reset, limit |-> h.limit,
               lastChecked |-> t]
         ELSE [c EXCEPT !.remaining = h.remaining, !.reset = h.reset,
                        !.lastChecked = t]
    ELSE c

updateRateLimitFromHeaders(c, h, t) ==
    IF Truthy(h.remaining) /\ Truthy(h.reset) /\ Truthy(h.limit)
    THEN [remaining |-> h.remaining, reset |-> h.reset, limit |-> h.limit,
          lastChecked |-> t]
    ELSE c

getCachedRateLimit(c, t) ==
    IF c = None THEN None
    ELSE LET hasReset == ResetPassed(c, t)
         IN [remaining |-> IF hasReset THEN c.limit ELSE c.remaining,
             limit |-> c.limit, reset |-> c.reset, hasReset |-> hasReset]

ThresholdError(c) ==
    [kind |-> "Threshold", status |-> 0, reset |-> c.reset, attempt |-> 0]

----------------------------------------------------------------------------
(* fetchWithRetry and requestWithRetry *)

\* The error fetchWithRetry throws for a non-ok response.
fetchError(status, h, attempt) ==
    IF status = 404
    THEN [kind |-> "NotFound", status |-> status, reset |-> Absent, attempt |-> attempt]
    ELSE IF status = 403
    THEN IF h.remaining = 0
         THEN [kind |-> "RateLimitExceeded", status |-> status, reset |-> h.reset,
               attempt |-> attempt]
         ELSE [kind |-> "Forbidden", status |-> status, reset |-> Absent,
               attempt |-> attempt]
    ELSE [kind |-> "ApiError", status |-> status, reset |-> Absent, attempt |-> attempt]

\* The error requestWithRetry throws: `GitHub API error ${status}: ...`.
requestError(status, h, attempt) ==
    [kind |-> "HttpError", status |-> status, reset |-> Absent, attempt |-> attempt]

\* fetch() rejected: the TypeError passes through the catch like any error.
transportError(attempt) ==
    [kind |-> "Transport", status |-> Transport, reset |-> Absent, attempt |-> attempt]

\* String(err.message).includes('<code>'): only requestWithRetry puts the
\* status code into the message.
msgIncludes(e, code) == e.kind = "HttpError" /\ e.status = code

\* The catch block of both helpers: rethrow on the last iteration, else sleep.
lastAttemptLate(i, retries) == i = retries

lastAttempt(i, retries) == i = retries - 1

backoffConstant(i) == BackoffUnit

backoff(i) == BackoffUnit * (i + 1)

\* this.updateRateLimitFromHeaders(response) runs for every response, before
\* response.ok is looked at; a rejected fetch has no response.
observeOkOnly(c, status, h, t) ==
    IF status = Transport \/ ~Ok(status) THEN c
    ELSE updateRateLimitFromHeaders(c, h, t)

observe(c, status, h, t) ==
    IF status = Transport THEN c ELSE updateRateLimitFromHeaders(c, h, t)

\* How a response is recorded in the history of the invocation.
RespClass(status, h) ==
    CASE status = Transport -> "transport"
      [] Ok(status) -> "ok"
      [] status = 404 -> "404"
      [] status = 403 /\ h.remaining = 0 -> "403q"
      [] status = 403 -> "403"
      [] OTHER -> "other"

\* What the cache held when checkRateLimit began, as the claims speak of it.
Pre(c, t) ==
    IF c = None THEN None
    ELSE [low |-> c.remaining < RATE_LIMIT_THRESHOLD, valid |-> CacheValid(c, t),
          passed |-> ResetPassed(c, t)]

\* await this.checkRateLimit(), then the first fetch of the loop if it returned.
Invoke(kind, retries, t) ==
    LET r == checkRateLimitCached(rateLimitCache, t) IN
    /\ rateLimitCache' = IF r = "clear" THEN None ELSE rateLimitCache
    /\ call' = [pc |-> CASE r = "throw" -> "done"
                        [] r = "refresh" -> "refreshing"
                        [] OTHER -> "inflight",
                kind |-> kind, retries |-> retries, i |-> 0]
    /\ outcome' = IF r = "throw"
                  THEN [status |-> "error", err |-> ThresholdError(rateLimitCache),
                        body |-> None]
                  ELSE NoOutcome
    /\ hist' = [NoHist EXCEPT !.pre = Pre(rateLimitCache, t), !.check = r,
                              !.snap = rateLimitCache,
                              !.requests = IF r \in {"clear", "return"} THEN 1 ELSE 0]
    /\ now' = t

\* getRateLimit() settles inside checkRateLimit; the loop then issues its
\* first fetch.
RefreshDone(outcomes) ==
    /\ call.pc = "refreshing"
    /\ \E out \in outcomes :
         LET c == getRateLimit(rateLimitCache, out, now)
             r == checkRateLimitRefreshed(c, out) IN
         /\ rateLimitCache' = c
         /\ call' = [call EXCEPT !.pc = IF r = "throw" THEN "done" ELSE "inflight"]
         /\ outcome' = IF r = "throw"
                       THEN [status |-> "error", err |-> ThresholdError(c), body |-> None]
                       ELSE NoOutcome
         /\ hist' = [hist EXCEPT !.refresh = IF out \in RefreshFailures THEN out.failed ELSE "ok",
                                 !.requests = IF r = "throw" THEN 0 ELSE 1]
    /\ UNCHANGED <<now, wf, calls, ticks, rankVars, fileVars, bundle, sharedVars>>

\* The fetch of iteration i settles with `status`, headers h and (for a 2xx)
\* the JSON body b: the headers are applied, the response is classified, and the
\* catch block either rethrows or starts the backoff sleep.
Settle(status, h, b) ==
    LET attempt == call.i + 1
        e == IF status = Transport THEN transportError(attempt)
             ELSE IF call.kind = "fetch" THEN fetchError(status, h, attempt)
             ELSE requestError(status, h, attempt)
        c == observe(rateLimitCache, status, h, now)
        good == status # Transport /\ Ok(status)
    IN
    /\ call.pc = "inflight"
    /\ ~good => b = None
    /\ rateLimitCache' = c
    /\ hist' = [hist EXCEPT !.resps = IF wf.pc = "off"
                                       THEN Append(@, RespClass(status, h))
                                       ELSE @,
                            !.snap = None,
                            !.hdr = IF status = Transport THEN None ELSE h]
    /\ IF good
       THEN /\ call' = [call EXCEPT !.pc = "done"]
            /\ outcome' = [status |-> "ok", err |-> NoError, body |-> b]
       ELSE IF lastAttempt(call.i, call.retries)
       THEN /\ call' = [call EXCEPT !.pc = "done"]
            /\ outcome' = [status |-> "error", err |-> e, body |-> None]
       ELSE /\ call' = [call EXCEPT !.pc = "sleeping"]
            /\ outcome' = [status |-> "none", err |-> e, body |-> None]
    /\ now' = now

\* setTimeout(resolve, 1000 * (i + 1)) fires; the loop goes to iteration i + 1
\* and issues its fetch.
SleepDone ==
    /\ call.pc = "sleeping"
    /\ now' = now + backoff(call.i)
    /\ call' = [call EXCEPT !.pc = "inflight", !.i = @ + 1]
    /\ hist' = [hist EXCEPT !.sleeps = Append(@, backoff(call.i)),
                            !.requests = @ + 1]
    /\ outcome' = NoOutcome
    /\ UNCHANGED <<rateLimitCache, wf, calls, ticks, rankVars, fileVars, bundle, sharedVars>>

----------------------------------------------------------------------------
(* Callers of the helpers outside the workflow (getUserData, getCommits, ...) *)

RetryChoices == {1, DefaultRetries}
TickSteps == {60000}

\* A read through fetchWithRetry or a write through requestWithRetry.
StartCall ==
    /\ call.pc = "idle"
    /\ wf.pc = "off"
    /\ calls < MaxCalls
    /\ \E kind \in {"fetch", "request"}, retries \in RetryChoices :
         Invoke(kind, retries, now)
    /\ calls' = calls + 1
    /\ UNCHANGED <<wf, ticks, rankVars, fileVars, bundle, sharedVars>>

\* A fetch of a stand-alone invocation settles.
Respond ==
    /\ wf.pc = "off"
    /\ \E status \in ReadStatuses \cup {Transport}, h \in HeaderChoices :
         /\ status = Transport => h = NoHeaders
         /\ Settle(status, h, None)
    /\ UNCHANGED <<wf, calls, ticks, rankVars, fileVars, bundle, sharedVars>>

\* The caller takes the result; the service is idle again.
Finish ==
    /\ call.pc = "done"
    /\ wf.pc = "off"
    /\ call' = IdleCall
    /\ outcome' = NoOutcome
    /\ hist' = NoHist
    /\ UNCHANGED <<now, rateLimitCache, wf, calls, ticks, rankVars, fileVars, bundle, sharedVars>>

\* Time passes between two invocations.
Tick ==
    /\ call.pc = "idle"
    /\ wf.pc = "off"
    /\ ticks < MaxTicks
    /\ \E d \in TickSteps : now' = now + d
    /\ ticks' = ticks + 1
    /\ UNCHANGED <<rateLimitCache, call, outcome, hist, wf, calls, rankVars, fileVars, bundle, sharedVars>>

----------------------------------------------------------------------------

----------------------------------------------------------------------------
(* POST /api/apply (app/api/apply/route.ts) *)

Owner == "upstream"                \* the owner named in the request
Me == "me"                         \* a login other than that owner
Logins == {"", Owner, Me}          \* me.login; "" when the body has none
Branches == {"", "main", "dev"}    \* default_branch; "" when the body has none
ActionChoices == {"", "readme", "deploy"}
ValidActions == {"readme", "tests", "ci"}

\* `gitready/${action}`
branchName(action) == <<"gitready", action>>

\* The JSON body of a 2xx response, as far as the handler reads it.
NoBody == [default_branch |-> "", full_name |-> FALSE, login |-> "", sha |-> ""]

BodiesFor(pc) ==
    CASE pc \in {"details", "forkDetails"} ->
             {[NoBody EXCEPT !.default_branch = d, !.full_name = TRUE] : d \in Branches}
      [] pc = "waitPoll" ->
             {[NoBody EXCEPT !.default_branch = "main", !.full_name = f] : f \in BOOLEAN}
      [] pc = "me" -> {[NoBody EXCEPT !.login = l] : l \in Logins}
      [] pc = "lookup" -> {[NoBody EXCEPT !.sha = x] : x \in {"", "abc"}}
      [] OTHER -> {NoBody}

\* What the workflow's responses carry as quota headers (GitHub sends them on
\* every response), and what a refresh yields while it runs.
FlowHeaders ==
    {[remaining |-> 30, limit |-> 30, reset |-> 100],
     [remaining |-> 0, limit |-> 12, reset |-> 100]}
FlowRefreshOutcomes ==
    {[failed |-> "transport"], [remaining |-> 30, limit |-> 30, reset |-> 100]}

\* x || fallback
OrElse(x, fallback) == IF x = "" THEN fallback ELSE x

headRefBare(prHeadOwner, owner, branch) == [qual |-> "", branch |-> branch]

\* prHeadOwner === owner ? branchName : `${prHeadOwner}:${branchName}`
headRef(prHeadOwner, owner, branch) ==
    IF prHeadOwner = owner THEN [qual |-> "", branch |-> branch]
    ELSE [qual |-> prHeadOwner, branch |-> branch]

\* createBranch's .catch: an error whose message includes '422' is ignored.
branchExistsNever(e) == FALSE

branchExists(e) == msgIncludes(e, 422)

\* The body of the PUT of createOrUpdateFile: ...(sha ? { sha } : {}).
writeBodyNoSha(sha, branch) == [branch |-> branch]

writeBody(sha, branch) ==
    IF sha # "" THEN [branch |-> branch, sha |-> sha] ELSE [branch |-> branch]

\* How the lookup of createOrUpdateFile ended: the error thrown, or whether the
\* body read carried a sha.
lookupResult(out) ==
    IF out.status = "error" THEN out.err.kind
    ELSE IF out.body.sha # "" THEN "found" ELSE "nosha"

\* The handler's catch: 403 with PAT_SCOPE_INSUFFICIENT when the message
\* includes '403', else 500.
ErrorResponse(e) ==
    IF msgIncludes(e, 403) THEN [http |-> 403, code |-> "PAT_SCOPE_INSUFFICIENT"]
    ELSE [http |-> 500, code |-> e.kind]

Logged(w, op, on) == [w EXCEPT !.log = Append(@, [op |-> op, on |-> on])]

\* The handler answers; nothing is in flight any more.
Answer(w, response, t) ==
    /\ wf' = [w EXCEPT !.pc = "done", !.result = response]
    /\ call' = IdleCall
    /\ outcome' = NoOutcome
    /\ hist' = NoHist
    /\ now' = t
    /\ UNCHANGED rateLimitCache

Abort(w, e, t) == Answer(w, ErrorResponse(e), t)

\* The handler calls a service method and awaits it.
Await(w, pc, op, on, kind, t) ==
    /\ wf' = Logged([w EXCEPT !.pc = pc], op, on)
    /\ Invoke(kind, DefaultRetries, t)

Returned(pc) == wf.pc = pc /\ call.pc = "done"
Failed == outcome.status = "error"

\* Lines 9-20: the required fields, then getRepoDetails(owner, repo).
WfStart ==
    /\ wf.pc = "off"
    /\ call.pc = "idle"
    /\ \E owner \in {"", Owner}, action \in ActionChoices :
         IF owner = "" \/ action = ""
         THEN Answer([wf EXCEPT !.action = action], [http |-> 400, code |-> "required"], now)
         ELSE Await([wf EXCEPT !.action = action], "details", "getRepoDetails", Owner,
                    "fetch", now)
    /\ UNCHANGED <<calls, ticks, rankVars, fileVars, bundle, sharedVars>>

\* Lines 21-27: baseBranch, then createBranch(owner, ...) begins with getRef.
WfDetails ==
    /\ Returned("details")
    /\ IF Failed THEN Abort(wf, outcome.err, now)
       ELSE Await([wf EXCEPT !.baseBranch = OrElse(outcome.body.default_branch, "main"),
                             !.prHeadOwner = Owner],
                  "getRef", "getRef", Owner, "fetch", now)
    /\ UNCHANGED <<calls, ticks, rankVars, fileVars, bundle, sharedVars>>

\* Lines 28-44: createBranch on the upstream owner threw e.
UpstreamBranchFailed(w, e) ==
    IF msgIncludes(e, 403)
    THEN Await(w, "me", "getAuthenticatedUser", "", "request", now)
    ELSE Abort(w, e, now)

\* Lines 47-89: the action switch, then createOrUpdateFile begins with its lookup.
StartCommit(w) ==
    IF w.action \notin ValidActions
    THEN Answer(w, [http |-> 400, code |-> "unsupported"], now)
    ELSE Await(w, "lookup", "getContents", w.prHeadOwner, "fetch", now)

\* createBranch: the base ref is read, then the new ref is posted.
WfGetRef ==
    /\ Returned("getRef")
    /\ IF Failed
       THEN UpstreamBranchFailed([wf EXCEPT !.baseRefStatus = outcome.err.status],
                                 outcome.err)
       ELSE Await(wf, "createRef", "createRef", Owner, "request", now)
    /\ UNCHANGED <<calls, ticks, rankVars, fileVars, bundle, sharedVars>>

WfCreateRef ==
    /\ Returned("createRef")
    /\ LET w == [wf EXCEPT !.refStatus = IF Failed THEN outcome.err.status ELSE 201] IN
       IF Failed /\ ~branchExists(outcome.err)
       THEN UpstreamBranchFailed(w, outcome.err)
       ELSE StartCommit(w)
    /\ UNCHANGED <<calls, ticks, rankVars, fileVars, bundle, sharedVars>>

\* Lines 32-35: the authenticated user, then the fork.
WfMe ==
    /\ Returned("me")
    /\ IF Failed THEN Abort(wf, outcome.err, now)
       ELSE IF outcome.body.login = ""
       THEN Abort(wf, [NoError EXCEPT !.kind = "NoIdentity"], now)
       ELSE Await([wf EXCEPT !.prHeadOwner = outcome.body.login],
                  "fork", "forkRepo", Owner, "request", now)
    /\ UNCHANGED <<calls, ticks, rankVars, fileVars, bundle, sharedVars>>

\* Line 37: waitForRepoAvailability starts its clock and polls.
WfFork ==
    /\ Returned("fork")
    /\ IF Failed THEN Abort(wf, outcome.err, now)
       ELSE IF 0 < WaitTimeout
       THEN Await([wf EXCEPT !.start = now, !.lastError = NoError],
                  "waitPoll", "getRepoDetails", wf.prHeadOwner, "fetch", now)
       ELSE Abort(wf, [NoError EXCEPT !.kind = "Timeout"], now)
    /\ UNCHANGED <<calls, ticks, rankVars, fileVars, bundle, sharedVars>>

\* A poll returned: details with a full_name end the wait (line 39 then reads
\* the fork's details); anything else is followed by the 1 s sleep.
WfWaitPoll ==
    /\ Returned("waitPoll")
    /\ IF ~Failed /\ outcome.body.full_name
       THEN Await(wf, "forkDetails", "getRepoDetails", wf.prHeadOwner, "fetch", now)
       ELSE /\ wf' = [wf EXCEPT !.pc = "waitSleep",
                                !.lastError = IF Failed THEN outcome.err ELSE @]
            /\ call' = IdleCall
            /\ outcome' = NoOutcome
            /\ hist' = NoHist
            /\ UNCHANGED <<now, rateLimitCache>>
    /\ UNCHANGED <<calls, ticks, rankVars, fileVars, bundle, sharedVars>>

WfWaitSleepSilent ==
    /\ wf.pc = "waitSleep"
    /\ LET t == now + PollInterval IN
       IF t - wf.start < WaitTimeout
       THEN Await(wf, "waitPoll", "getRepoDetails", wf.prHeadOwner, "fetch", t)
       ELSE Await(wf, "forkDetails", "getRepoDetails", wf.prHeadOwner, "fetch", t)
    /\ UNCHANGED <<calls, ticks, rankVars, fileVars, bundle, sharedVars>>

\* The sleep is over: poll again while the deadline has not passed, else throw
\* the last error or the timeout error.
WfWaitSleep ==
    /\ wf.pc = "waitSleep"
    /\ LET t == now + PollInterval IN
       IF t - wf.start < WaitTimeout
       THEN Await(wf, "waitPoll", "getRepoDetails", wf.prHeadOwner, "fetch", t)
       ELSE IF wf.lastError # NoError THEN Abort(wf, wf.lastError, t)
       ELSE Abort(wf, [NoError EXCEPT !.kind = "Timeout"], t)
    /\ UNCHANGED <<calls, ticks, rankVars, fileVars, bundle, sharedVars>>

\* Lines 39-41: the fork's default branch (forkBaseBranch, which only names the
\* ref that getRef reads), then createBranch on the fork.
WfForkDetails ==
    /\ Returned("forkDetails")
    /\ IF Failed THEN Abort(wf, outcome.err, now)
       ELSE Await([wf EXCEPT !.forkBaseBranch =
                               OrElse(outcome.body.default_branch, wf.baseBranch)],
                  "forkGetRef", "getRef", wf.prHeadOwner, "fetch", now)
    /\ UNCHANGED <<calls, ticks, rankVars, fileVars, bundle, sharedVars>>

WfForkGetRef ==
    /\ Returned("forkGetRef")
    /\ IF Failed THEN Abort(wf, outcome.err, now)
       ELSE Await(wf, "forkCreateRef", "createRef", wf.prHeadOwner, "request", now)
    /\ UNCHANGED <<calls, ticks, rankVars, fileVars, bundle, sharedVars>>

WfForkCreateRefAnyway ==
    /\ Returned("forkCreateRef")
    /\ StartCommit(wf)
    /\ UNCHANGED <<calls, ticks, rankVars, fileVars, bundle, sharedVars>>

WfForkCreateRef ==
    /\ Returned("forkCreateRef")
    /\ IF Failed /\ ~branchExists(outcome.err)
       THEN Abort(wf, outcome.err, now)
       ELSE StartCommit(wf)
    /\ UNCHANGED <<calls, ticks, rankVars, fileVars, bundle, sharedVars>>

\* createOrUpdateFile: any failure of the lookup means "no sha"; then the PUT.
WfLookup ==
    /\ Returned("lookup")
    /\ LET sha == IF Failed THEN "" ELSE outcome.body.sha IN
       Await([wf EXCEPT !.sha = sha, !.lookup = lookupResult(outcome),
                        !.write = writeBody(sha, branchName(wf.action))],
             "put", "putContents", wf.prHeadOwner, "request", now)
    /\ UNCHANGED <<calls, ticks, rankVars, fileVars, bundle, sharedVars>>

WfPutOnFork ==
    /\ Returned("put")
    /\ IF Failed THEN Abort(wf, outcome.err, now)
       ELSE Await([wf EXCEPT !.pr = [owner |-> wf.prHeadOwner,
                                     head |-> headRef(wf.prHeadOwner, Owner,
                                                      branchName(wf.action)),
                                     base |-> OrElse(wf.forkBaseBranch, wf.baseBranch)]],
                  "pr", "createPullRequest", wf.prHeadOwner, "request", now)
    /\ UNCHANGED <<calls, ticks, rankVars, fileVars, bundle, sharedVars>>

\* Lines 99-101: the head reference, then createPullRequest on the upstream.
WfPut ==
    /\ Returned("put")
    /\ IF Failed THEN Abort(wf, outcome.err, now)
       ELSE Await([wf EXCEPT !.pr = [owner |-> Owner,
                                     head |-> headRef(wf.prHeadOwner, Owner,
                                                      branchName(wf.action)),
                                     base |-> wf.baseBranch]],
                  "pr", "createPullRequest", Owner, "request", now)
    /\ UNCHANGED <<calls, ticks, rankVars, fileVars, bundle, sharedVars>>

WfPrIgnoresFailure ==
    /\ Returned("pr")
    /\ Answer(wf, [http |-> 200, code |-> "pr"], now)
    /\ UNCHANGED <<calls, ticks, rankVars, fileVars, bundle, sharedVars>>

WfPr ==
    /\ Returned("pr")
    /\ IF Failed THEN Abort(wf, outcome.err, now)
       ELSE Answer(wf, [http |-> 200, code |-> "pr"], now)
    /\ UNCHANGED <<calls, ticks, rankVars, fileVars, bundle, sharedVars>>

\* A fetch of the workflow's current invocation settles.
FlowRespond ==
    /\ wf.pc \notin {"off", "done", "waitSleep"}
    /\ \E status \in Statuses \cup {Transport}, h \in FlowHeaders \cup {NoHeaders},
          b \in BodiesFor(wf.pc) \cup {None} :
         LET bad == status = Transport \/ ~Ok(status)
             already == call.i > 0
         IN
         /\ h = NoHeaders <=> status = Transport
         /\ bad => (already \/ wf.faulty < MaxFaultyCalls)
         /\ ~bad => b # None
         /\ Settle(status, h, b)
         /\ wf' = [wf EXCEPT !.faulty = IF bad /\ ~already THEN @ + 1 ELSE @]
    /\ UNCHANGED <<calls, ticks, rankVars, fileVars, bundle, sharedVars>>

----------------------------------------------------------------------------
(* calculateRepoImportance and rankReposByImportance                        *)
(* (lib/deep-analyzer-service.ts).  Time is in whole days here: pushed_at   *)
(* is the day of the last push, today the day Date.now() falls on.          *)

Today0 == 1000                      \* the day of the first invocation
DefaultLimit == 3                   \* limit: number = 3

roleLanguages ==
    [r \in {"Frontend", "Backend", "Fullstack", "DevOps", "Data Science"} |->
        CASE r = "Frontend" -> {"TypeScript", "JavaScript", "Vue", "CSS", "SCSS"}
          [] r = "Backend" -> {"Python", "Go", "Java", "Ruby", "Rust", "PHP", "C#"}
          [] r = "Fullstack" -> {"TypeScript", "JavaScript", "Python", "Go"}
          [] r = "DevOps" -> {"Shell", "Python", "Go", "HCL"}
          [] r = "Data Science" -> {"Python", "R", "Jupyter Notebook", "Julia"}]

\* One entry of `reasons`: the text, with the count and the language and role
\* the template interpolates.
Reason(text, n, lang, role) == [text |-> text, n |-> n, lang |-> lang, role |-> role]
Plain(text) == Reason(text, 0, "", "")

\* One signal: the points it adds and the reason it pushes, if any.
Signal(points, reasons) == [points |-> points, reasons |-> reasons]
NoSignal == Signal(0, <<>>)

starsSignalStrict(repo) ==
    IF repo.stargazers_count > 10
    THEN Signal(30, <<Reason("stars - community validated", repo.stargazers_count, "", "")>>)
    ELSE IF repo.stargazers_count > 3
    THEN Signal(15, <<Reason("stars", repo.stargazers_count, "", "")>>)
    ELSE NoSignal

starsSignal(repo) ==
    IF repo.stargazers_count >= 10
    THEN Signal(30, <<Reason("stars - community validated", repo.stargazers_count, "", "")>>)
    ELSE IF repo.stargazers_count >= 3
    THEN Signal(15, <<Reason("stars", repo.stargazers_count, "", "")>>)
    ELSE NoSignal

forksSignal(repo) ==
    IF repo.forks_count >= 5
    THEN Signal(25, <<Reason("forks - others are using this", repo.forks_count, "", "")>>)
    ELSE IF repo.forks_count >= 2
    THEN Signal(10, <<Reason("forks", repo.forks_count, "", "")>>)
    ELSE NoSignal

\* (Date.now() - pushedDate.getTime()) / (1000 * 60 * 60 * 24); an unparsable
\* pushed_at gives NaN, for which both comparisons are false.
recencySignal(repo, t) ==
    IF repo.pushed_at = Absent THEN NoSignal
    ELSE LET daysSincePush == t - repo.pushed_at IN
         IF daysSincePush < 30 THEN Signal(20, <<Plain("Recently active")>>)
         ELSE IF daysSincePush < 90 THEN Signal(10, <<Plain("Active in last 3 months")>>)
         ELSE NoSignal

commitsSignal(repo) ==
    IF repo.commit_count >= 50
    THEN Signal(20, <<Reason("commits - substantial work", repo.commit_count, "", "")>>)
    ELSE IF repo.commit_count >= 20
    THEN Signal(10, <<Reason("commits", repo.commit_count, "", "")>>)
    ELSE NoSignal

\* repo.language && roleLanguages[targetRole]?.includes(repo.language)
languageSignal(repo, role) ==
    IF /\ repo.language # ""
       /\ role \in DOMAIN roleLanguages
       /\ repo.language \in roleLanguages[role]
    THEN Signal(15, <<Reason("matches role", 0, repo.language, role)>>)
    ELSE NoSignal

flagSignal(flag, points, text) ==
    IF flag THEN Signal(points, <<Plain(text)>>) ELSE NoSignal

\* repo.topics && repo.topics.length > 0; Absent stands for no topics array.
topicsSignal(repo) ==
    IF repo.topics # Absent /\ repo.topics > 0
    THEN Signal(5, <<Plain("Uses topics for organization")>>)
    ELSE NoSignal

RECURSIVE SumPoints(_)
SumPoints(signals) ==
    IF signals = <<>> THEN 0 ELSE Head(signals).points + SumPoints(Tail(signals))

RECURSIVE AllReasons(_)
AllReasons(signals) ==
    IF signals = <<>> THEN <<>> ELSE Head(signals).reasons \o AllReasons(Tail(signals))

\* calculateRepoImportance, evaluated when Date.now() is day t.
calculateRepoImportance(repo, role, t) ==
    LET signals == <<starsSignal(repo), forksSignal(repo), recencySignal(repo, t),
                     commitsSignal(repo), languageSignal(repo, role),
                     flagSignal(repo.has_readme, 10, "Has README"),
                     flagSignal(repo.has_tests, 15, "Has tests"),
                     flagSignal(repo.has_ci, 10, "Has CI/CD"),
                     topicsSignal(repo)>>
    IN [repo |-> repo, score |-> SumPoints(signals), reasons |-> AllReasons(signals)]

\* (a, b) => b.score - a.score
compareScores(a, b) == b.score - a.score

\* Array.prototype.sort is stable: an element goes behind every element the
\* comparator does not put after it.
RECURSIVE insertSortedTiesFirst(_, _)
insertSortedTiesFirst(x, sorted) ==
    IF sorted = <<>> THEN <<x>>
    ELSE IF compareScores(Head(sorted), x) < 0
    THEN <<Head(sorted)>> \o insertSortedTiesFirst(x, Tail(sorted))
    ELSE <<x>> \o sorted

RECURSIVE insertSorted(_, _)
insertSorted(x, sorted) ==
    IF sorted = <<>> THEN <<x>>
    ELSE IF compareScores(Head(sorted), x) <= 0
    THEN <<Head(sorted)>> \o insertSorted(x, Tail(sorted))
    ELSE <<x>> \o sorted

RECURSIVE sortFrom(_, _, _)
sortFrom(scored, k, sorted) ==
    IF k > Len(scored) THEN sorted
    ELSE sortFrom(scored, k + 1, insertSorted(scored[k], sorted))

sort(scored) == sortFrom(scored, 1, <<>>)

sliceAll(scored, n) == scored

\* scored.slice(0, limit), limit >= 0
slice(scored, n) == SubSeq(scored, 1, IF n < Len(scored) THEN n ELSE Len(scored))

\* rankReposByImportance, evaluated when Date.now() is day t.
rankReposByImportance(rs, role, n, t) ==
    LET scored == [k \in 1..Len(rs) |-> calculateRepoImportance(rs[k], role, t)]
    IN slice(sort(scored), n)

\* Repository descriptors.
Repo(stars, forks, age, commits, language, flags) ==
    [stargazers_count |-> stars, forks_count |-> forks,
     pushed_at |-> IF age = Absent THEN Absent ELSE Today0 - age,
     commit_count |-> commits, language |-> language,
     has_readme |-> flags.readme, has_tests |-> flags.tests, has_ci |-> flags.ci,
     topics |-> flags.topics]

Flags(readme, tests, ci, topics) ==
    [readme |-> readme, tests |-> tests, ci |-> ci, topics |-> topics]
NoFlags == Flags(FALSE, FALSE, FALSE, 0)
AllFlags == Flags(TRUE, TRUE, TRUE, 2)
FlagChoices ==
    {NoFlags, AllFlags, Flags(TRUE, FALSE, FALSE, 0), Flags(FALSE, TRUE, FALSE, 0),
     Flags(FALSE, FALSE, TRUE, 0), Flags(FALSE, FALSE, FALSE, 1)}

StarChoices == {2, 3, 9, 10}
ForkChoices == {1, 2, 4, 5}
AgeChoices == {29, 30, 89, 90}
CommitChoices == {19, 20, 49, 50}
LanguageChoices == {"TypeScript", "Python", ""}
RoleChoices == {"Frontend", "Backend", "Mobile"}
LimitChoices == {0, 1, 2, DefaultLimit}

\* 12 stars, 6 forks, pushed 10 days ago, 60 commits, README, tests, CI, topics.
ExampleRepo == Repo(12, 6, 10, 60, "TypeScript", AllFlags)

Descriptors ==
    {Repo(st, fk, age, cm, lang, fl) :
        st \in StarChoices, fk \in ForkChoices, age \in AgeChoices,
        cm \in CommitChoices, lang \in LanguageChoices, fl \in FlagChoices}
    \cup {ExampleRepo,
          Repo(0, 0, Absent, 0, "", Flags(FALSE, FALSE, FALSE, Absent)),
          Repo(0, 0, 400, 0, "Kotlin", NoFlags)}

\* Descriptors for the lists: two with equal scores whatever the day (30),
\* one whose score changes from one day to the next, and the example.
TenStars == Repo(10, 0, 400, 0, "", NoFlags)
FiveForksTopics == Repo(0, 5, 400, 0, "", Flags(FALSE, FALSE, FALSE, 1))
FreshThreeStars == Repo(3, 0, 29, 0, "", NoFlags)
RankSample == {TenStars, FiveForksTopics, FreshThreeStars, ExampleRepo}

RepoLists ==
    UNION {[1..n -> RankSample] : n \in 0..MaxRepos}

\* A caller holds descriptors, a role and a limit.
InitRank ==
    /\ now = 0
    /\ rateLimitCache = None
    /\ call = IdleCall
    /\ outcome = NoOutcome
    /\ hist = NoHist
    /\ wf = NoWorkflow
    /\ calls = 0
    /\ ticks = 0
    /\ \/ repos \in {<<d>> : d \in Descriptors} /\ limit = DefaultLimit
       \/ repos \in RepoLists /\ limit \in LimitChoices
    /\ targetRole \in RoleChoices
    /\ today = Today0
    /\ ranked = <<>>
    /\ tree = <<>>
    /\ maxFiles = 0
    /\ selected = None
    /\ bundle = None
    /\ gov = None
    /\ writes = None

\* The caller invokes rankReposByImportance(repos, targetRole, limit).
RankRepos ==
    /\ Len(ranked) < MaxRuns
    /\ ranked' = Append(ranked, [at |-> today,
                                 out |-> rankReposByImportance(repos, targetRole,
                                                               limit, today)])
    /\ UNCHANGED <<repos, targetRole, limit, today, serviceVars, fileVars, bundle, sharedVars>>

\* A day passes between two invocations.
DayPasses ==
    /\ today - Today0 < MaxDays
    /\ today' = today + 1
    /\ UNCHANGED <<repos, targetRole, limit, ranked, serviceVars, fileVars, bundle, sharedVars>>

NextRank ==
    \/ RankRepos
    \/ DayPasses

SpecRank == InitRank /\ [][NextRank]_vars

----------------------------------------------------------------------------
(* Strings, as the JavaScript string methods and regular expressions of the *)
(* file filters use them.                                                   *)

UpperLetters == "ABCDEFGHIJKLMNOPQRSTUVWXYZ"
LowerLetters == "abcdefghijklmnopqrstuvwxyz"

Char(str, i) == SubSeq(str, i, i)

LowerOf ==
    [c \in {Char(UpperLetters, i) : i \in 1..Len(UpperLetters)} |->
        Char(LowerLetters, CHOOSE i \in 1..Len(UpperLetters) : Char(UpperLetters, i) = c)]

lowerChar(c) == IF c \in DOMAIN LowerOf THEN LowerOf[c] ELSE c

\* str.toLowerCase(); also the effect of the i flag of a pattern.
RECURSIVE toLowerCase(_)
toLowerCase(str) ==
    IF Len(str) = 0 THEN ""
    ELSE lowerChar(Char(str, 1)) \o toLowerCase(SubSeq(str, 2, Len(str)))

startsWith(str, prefix) ==
    Len(prefix) <= Len(str) /\ SubSeq(str, 1, Len(prefix)) = prefix

endsWith(str, suffix) ==
    Len(suffix) <= Len(str) /\ SubSeq(str, Len(str) - Len(suffix) + 1, Len(str)) = suffix

includes(str, part) ==
    \E i \in 1..(Len(str) - Len(part) + 1) : SubSeq(str, i, i + Len(part) - 1) = part

\* str.split('/')
RECURSIVE splitFrom(_, _, _)
splitFrom(str, i, part) ==
    IF i > Len(str) THEN <<part>>
    ELSE IF Char(str, i) = "/" THEN <<part>> \o splitFrom(str, i + 1, "")
    ELSE splitFrom(str, i + 1, part \o Char(str, i))

split(str) == splitFrom(str, 1, "")

SeqToSet(seq) == {seq[k] : k \in 1..Len(seq)}

----------------------------------------------------------------------------
(* shouldSkipPath, isImportantFile, matchesRole, filterAndPrioritizeFiles   *)
(* (lib/deep-analyzer-service.ts)                                           *)

DefaultMaxFiles == 30               \* maxFiles: number = 30
LargeFile == 100000                 \* item.size > 100000
SmallFile == 5000                   \* item.size < 5000

SKIP_DIRECTORIES ==
    {"node_modules", ".git", "dist", "build", "out", ".next", ".nuxt",
     "__pycache__", ".venv", "venv", "env", "virtualenv",
     "vendor", ".cache", "coverage", ".nyc_output", "target",
     ".idea", ".vscode", ".gradle", "bin", "obj",
     "public/assets", "static/assets", ".turbo"}

\* SKIP_FILE_PATTERNS: every pattern but LICENSE is a suffix test with the i flag.
SkipSuffixes ==
    {"package-lock.json", "yarn.lock", "pnpm-lock.yaml", ".min.js", ".min.css", ".map",
     ".woff", ".woff2", ".ttf", ".eot", ".otf",
     ".png", ".jpg", ".jpeg", ".gif", ".svg", ".ico", ".webp", ".avif",
     ".mp3", ".mp4", ".avi", ".mov", ".webm",
     ".zip", ".tar", ".gz", ".rar", ".7z",
     ".pdf", ".doc", ".docx", ".xls", ".xlsx",
     ".gitignore", ".npmrc", ".eslintcache", ".ds_store", "thumbs.db"}

\* /LICENSE(\..*)?$/i
licensePattern(low) ==
    \E i \in 1..(Len(low) - 6) :
        /\ SubSeq(low, i, i + 6) = "license"
        /\ (i + 6 = Len(low) \/ Char(low, i + 7) = ".")

\* pattern.test(str) for some pattern of SKIP_FILE_PATTERNS
skipPatternTest(str) ==
    LET low == toLowerCase(str) IN
    \/ \E suffix \in SkipSuffixes : endsWith(low, suffix)
    \/ licensePattern(low)

\* A directory name is looked up among the path's segments, one segment at a time.
underSkippedDirectory(path) ==
    \E part \in SeqToSet(split(path)) : part \in SKIP_DIRECTORIES

shouldSkipPath(path) ==
    LET pathParts == split(path)
        filename == pathParts[Len(pathParts)]
    IN \/ underSkippedDirectory(path)
       \/ skipPatternTest(filename) \/ skipPatternTest(path)

ImportantNames ==
    {"readme.md", "package.json", "tsconfig.json", "setup.py", "requirements.txt",
     "pyproject.toml", "cargo.toml", "go.mod", "pom.xml", "build.gradle",
     "build.gradle.kts", "dockerfile", "docker-compose.yml", "docker-compose.yaml"}
EntryStems == {"index", "main", "app", "server"}
SrcEntryStems == {"index", "main", "app"}
EntryExtensions == {".ts", ".tsx", ".js", ".jsx", ".py"}
SrcEntryExtensions == {".ts", ".tsx", ".js", ".jsx"}

isImportantFileNever(path) == FALSE

\* IMPORTANT_FILE_PATTERNS: every pattern is anchored at both ends.
isImportantFile(path) ==
    LET low == toLowerCase(path) IN
    \/ low \in ImportantNames
    \/ /\ startsWith(low, ".github/workflows/")
       /\ \E ext \in {".yml", ".yaml"} :
              endsWith(low, ext) /\ Len(low) > Len(".github/workflows/") + Len(ext)
    \/ \E stem \in EntryStems, ext \in EntryExtensions : low = stem \o ext
    \/ \E stem \in SrcEntryStems, ext \in SrcEntryExtensions : low = "src/" \o stem \o ext

\* ROLE_FILE_PATTERNS, each pattern as a suffix, a prefix or a substring test.
NoPatterns == [suffixes |-> {}, prefixes |-> {}, parts |-> {}]
ROLE_FILE_PATTERNS ==
    [r \in {"Frontend", "Backend", "Fullstack", "DevOps", "Data Science"} |->
        CASE r = "Frontend" ->
                 [suffixes |-> {".tsx", ".jsx", ".vue", ".svelte", ".css", ".scss"},
                  prefixes |-> {}, parts |-> {"tailwind.config"}]
          [] r = "Backend" ->
                 [suffixes |-> {".py", ".go", ".java", ".rb", ".rs", ".php", ".prisma",
                                "schema.graphql", "schema.gql"},
                  prefixes |-> {"server/", "api/", "routes/", "controllers/"},
                  parts |-> {}]
          [] r = "Fullstack" ->
                 [suffixes |-> {".tsx", ".jsx", ".vue", ".py", ".go"},
                  prefixes |-> {"server/", "api/", "client/", "frontend/", "backend/"},
                  parts |-> {}]
          [] r = "DevOps" ->
                 [suffixes |-> {".yml", ".yaml"},
                  prefixes |-> {".github/workflows/"},
                  parts |-> {"dockerfile", "docker-compose", "terraform", "jenkinsfile"}]
          [] r = "Data Science" ->
                 [suffixes |-> {".ipynb", ".py", "requirements.txt"},
                  prefixes |-> {"notebooks/", "data/", "models/"},
                  parts |-> {}]]

\* ROLE_FILE_PATTERNS[targetRole] || []
matchesRole(path, role) ==
    LET low == toLowerCase(path)
        patterns == IF role \in DOMAIN ROLE_FILE_PATTERNS THEN ROLE_FILE_PATTERNS[role]
                    ELSE NoPatterns
    IN \/ \E suffix \in patterns.suffixes : endsWith(low, suffix)
       \/ \E prefix \in patterns.prefixes : startsWith(low, prefix)
       \/ \E part \in patterns.parts : includes(low, part)

\* item.size && ...: an absent size and a size of 0 are falsy.
HasSize(item) == item.size # Absent /\ item.size # 0

\* The filter of filterAndPrioritizeFiles.
relevant(item) ==
    /\ item.type = "blob"
    /\ ~shouldSkipPath(item.path)
    /\ ~(HasSize(item) /\ item.size > LargeFile)

\* The score of filterAndPrioritizeFiles.
fileScore(item, role) ==
    LET low == toLowerCase(item.path) IN
      (IF isImportantFile(item.path) THEN 100 ELSE 0)
    + (IF matchesRole(item.path, role) THEN 50 ELSE 0)
    + (IF HasSize(item) /\ item.size < SmallFile THEN 20 ELSE 0)
    + (IF \E prefix \in {"src/", "lib/", "app/"} : startsWith(low, prefix) THEN 30 ELSE 0)
    + (IF includes(low, ".test.") \/ includes(low, ".spec.") THEN 25 ELSE 0)

filterAndPrioritizeFiles(items, role, n) ==
    LET filtered == SelectSeq(items, relevant)
        scored == [k \in 1..Len(filtered) |->
                      [item |-> filtered[k], score |-> fileScore(filtered[k], role)]]
        top == slice(sort(scored), n)
    IN [k \in 1..Len(top) |-> top[k].item]

\* Trees: distinct paths, all files of one tree of the same size.
TreePaths ==
    {"README.md", "tests/App.test.tsx", "src/index.ts",
     "public/assets/app.js", "static/assets/site.css", "node_modules/dep/index.js",
     "package-lock.json", "license.d/index.ts", "src"}
TreeSizes == {Absent, 0, 100, 5000, 100001}
FileRoles == {"Frontend", "Mobile"}
MaxFilesChoices == {0, 1, DefaultMaxFiles}

TreeItem(path, size) ==
    IF path = "src" THEN [path |-> path, type |-> "tree", size |-> Absent]
    ELSE [path |-> path, type |-> "blob", size |-> size]

Trees(size) ==
    UNION {{t \in [1..n -> {TreeItem(p, size) : p \in TreePaths}] :
               \A i, j \in 1..n : i # j => t[i] # t[j]} : n \in 0..MaxTree}

InitFiles ==
    /\ now = 0
    /\ rateLimitCache = None
    /\ call = IdleCall
    /\ outcome = NoOutcome
    /\ hist = NoHist
    /\ wf = NoWorkflow
    /\ calls = 0
    /\ ticks = 0
    /\ repos = <<>>
    /\ limit = 0
    /\ today = 0
    /\ ranked = <<>>
    /\ \E size \in TreeSizes : tree \in Trees(size)
    /\ targetRole \in FileRoles
    /\ maxFiles \in MaxFilesChoices
    /\ selected = None
    /\ bundle = None
    /\ gov = None
    /\ writes = None

\* The caller invokes filterAndPrioritizeFiles(tree, targetRole, maxFiles).
FilterFiles ==
    /\ selected = None
    /\ selected' = [items |-> filterAndPrioritizeFiles(tree, targetRole, maxFiles)]
    /\ UNCHANGED <<serviceVars, rankVars, tree, maxFiles, bundle, sharedVars>>

NextFiles == FilterFiles

SpecFiles == InitFiles /\ [][NextFiles]_vars

----------------------------------------------------------------------------
(* GitHubService.getRepoCodeBundle (lib/github-service.ts).  Sizes and      *)
(* content lengths are counted in characters.                               *)

BundleDefaultMaxFiles == 60         \* options.maxFiles ?? 60
MaxFileSizeChoices == {5}           \* options.maxFileSize passed by the caller
BundleMaxFilesChoices == {0, 1, 4, BundleDefaultMaxFiles}

allowExt ==
    {".md", ".js", ".ts", ".jsx", ".tsx", ".json", ".yml", ".yaml", ".py", ".java",
     ".kt", ".cs"}


isAllowed(name) ==
    LET lower == toLowerCase(name) IN \E ext \in allowExt : endsWith(lower, ext)

\* An entry of a contents listing.
Entry(type, path, name, size) == [type |-> type, path |-> path, name |-> name, size |-> size]

\* The repository: what GET /contents/<dir> lists for each directory.
RepoDirs == {"", "src", "docs", "src/deep"}
RepoListing ==
    [d \in RepoDirs |->
        CASE d = "" ->
                 <<Entry("dir", "docs", "docs", 0),
                   Entry("file", "README.md", "README.md", 3),
                   Entry("file", "logo.png", "logo.png", 2),
                   Entry("file", "big.ts", "big.ts", 9),
                   Entry("dir", "src", "src", 0),
                   Entry("file", "Notes.MD", "Notes.MD", Absent)>>
          [] d = "src" ->
                 <<Entry("file", "src/a.ts", "a.ts", 2),
                   Entry("dir", "src/deep", "deep", 0),
                   Entry("file", "src/b.JS", "b.JS", 5)>>
          [] d = "docs" ->
                 <<Entry("file", "docs/guide.md", "guide.md", 3),
                   Entry("symlink", "docs/latest", "latest", 1)>>
          [] d = "src/deep" ->
                 <<Entry("file", "src/deep/c.py", "c.py", 1)>>]

\* What getFileText yields: null (a failure, or no content), or a text of some
\* length, which need not be the size the listing gave.
ContentLengths == {0, 3, 8}

\* Number(it.size || 0)
sizeOf(it) == IF it.size = Absent THEN 0 ELSE it.size

\* The for loop over the items of one listing.
RECURSIVE processItems(_, _, _)
processItems(b, items, k) ==
    IF k > Len(items) \/ b.count >= b.maxFiles THEN b
    ELSE LET it == items[k] IN
         IF it.type = "dir"
         THEN processItems([b EXCEPT !.queue = Append(@, it.path)], items, k + 1)
         ELSE IF it.type = "file" /\ isAllowed(it.name) /\ sizeOf(it) <= b.maxFileSize
         THEN processItems([b EXCEPT !.files = Append(@, [path |-> it.path,
                                                           size |-> sizeOf(it)]),
                                     !.count = @ + 1], items, k + 1)
         ELSE processItems(b, items, k + 1)

\* catch { continue }
abortOnFailedListing(b, path) ==
    [b EXCEPT !.queue = <<>>, !.failed = @ \cup {path}]

afterFailedListing(b, path) == [b EXCEPT !.failed = @ \cup {path}]

traversalIgnoresCap(b) == b.queue # <<>>

\* while (queue.length && count < maxFiles)
traversalGoesOn(b) == b.queue # <<>> /\ b.count < b.maxFiles

endOfIteration(b) ==
    [b EXCEPT !.pc = IF traversalGoesOn(b) THEN "listing" ELSE "fetching"]

notTruncated(length, maxFileSize) == length

\* content.slice(0, maxFileSize).length
truncated(length, maxFileSize) == IF length < maxFileSize THEN length ELSE maxFileSize

pop(queue) == [path |-> queue[Len(queue)], rest |-> SubSeq(queue, 1, Len(queue) - 1)]

\* queue.shift()
shift(queue) == [path |-> Head(queue), rest |-> Tail(queue)]

\* A caller invokes getRepoCodeBundle(owner, repo, { maxFiles, maxFileSize }).
GetRepoCodeBundle ==
    /\ bundle = None
    /\ \E mf \in BundleMaxFilesChoices, ms \in MaxFileSizeChoices :
         bundle' = endOfIteration(
                       [pc |-> "listing", maxFiles |-> mf, maxFileSize |-> ms,
                        queue |-> <<"">>, files |-> <<>>, count |-> 0,
                        listed |-> {}, failed |-> {}, order |-> <<>>, next |-> 1,
                        code |-> <<>>])
    /\ UNCHANGED <<serviceVars, rankVars, fileVars, sharedVars>>

\* One iteration of the traversal: the listing of the directory at the head of
\* the queue settles, with its items or with a failure.
ListDirectory ==
    /\ bundle # None
    /\ bundle.pc = "listing"
    /\ LET path == shift(bundle.queue).path
           b == [bundle EXCEPT !.queue = shift(bundle.queue).rest,
                               !.order = Append(@, path)]
       IN \E ok \in BOOLEAN :
            bundle' = endOfIteration(
                          IF ok
                          THEN processItems([b EXCEPT !.listed = @ \cup {path}],
                                            RepoListing[path], 1)
                          ELSE afterFailedListing(b, path))
    /\ UNCHANGED <<serviceVars, rankVars, fileVars, sharedVars>>

\* getFileText settles for the next file of the manifest.
FetchFile ==
    /\ bundle # None
    /\ bundle.pc = "fetching"
    /\ bundle.next <= Len(bundle.files)
    /\ \E length \in ContentLengths :
         bundle' = [bundle EXCEPT
                       !.next = @ + 1,
                       !.code = IF length = 0 THEN @
                                ELSE Append(@, [path |-> bundle.files[bundle.next].path,
                                                length |-> truncated(length,
                                                                     bundle.maxFileSize)])]
    /\ UNCHANGED <<serviceVars, rankVars, fileVars, sharedVars>>

\* return { manifest: files, code }
ReturnBundle ==
    /\ bundle # None
    /\ bundle.pc = "fetching"
    /\ bundle.next > Len(bundle.files)
    /\ bundle' = [bundle EXCEPT !.pc = "done"]
    /\ UNCHANGED <<serviceVars, rankVars, fileVars, sharedVars>>

NextBundle ==
    \/ GetRepoCodeBundle
    \/ ListDirectory
    \/ FetchFile
    \/ ReturnBundle

Init ==
    /\ now = 0
    /\ rateLimitCache = None
    /\ call = IdleCall
    /\ outcome = NoOutcome
    /\ hist = NoHist
    /\ wf = NoWorkflow
    /\ calls = 0
    /\ ticks = 0
    /\ repos = <<>>
    /\ targetRole = ""
    /\ limit = 0
    /\ today = 0
    /\ ranked = <<>>
    /\ tree = <<>>
    /\ maxFiles = 0
    /\ selected = None
    /\ bundle = None
    /\ gov = None
    /\ writes = None

Next ==
    \/ StartCall
    \/ RefreshDone(RefreshOutcomes)
    \/ Respond
    \/ SleepDone
    \/ Finish
    \/ Tick

Spec == Init /\ [][Next]_vars

NextFlow ==
    \/ WfStart
    \/ WfDetails
    \/ WfGetRef
    \/ WfCreateRef
    \/ WfMe
    \/ WfFork
    \/ WfWaitPoll
    \/ WfWaitSleep
    \/ WfForkDetails
    \/ WfForkGetRef
    \/ WfForkCreateRef
    \/ WfLookup
    \/ WfPut
    \/ WfPr
    \/ FlowRespond
    \/ RefreshDone(FlowRefreshOutcomes)
    \/ SleepDone

SpecFlow == Init /\ [][NextFlow]_vars

SpecBundle == Init /\ [][NextBundle]_vars

\* Every request of the traversal and of the fetch loop settles in the end:
\* each goes through fetchWithRetry, whose attempts are bounded.
SpecBundleLive == Init /\ [][NextBundle]_vars /\ WF_vars(NextBundle)

----------------------------------------------------------------------------
(* Invocations of fetchWithRetry that share one service instance and run   *)
(* between each other's awaits, as the Promise.all of getUserRepos starts   *)
(* them.  Each step below is one stretch of code between two awaits.        *)

Workers == {1, 2}
GovTickSteps == {1000, 60000}
GovStatuses == {200, 500, Transport}

IdleWorker == [pc |-> "idle", i |-> 0, wake |-> 0]

\* The snapshot one observation amounts to: the three values of one response
\* and the time it was applied.
Snapshot(o, t) ==
    [remaining |-> o.remaining, reset |-> o.reset, limit |-> o.limit, lastChecked |-> t]

InitGov ==
    /\ now = 0
    /\ rateLimitCache = None
    /\ call = IdleCall
    /\ outcome = NoOutcome
    /\ hist = NoHist
    /\ wf = NoWorkflow
    /\ calls = 0
    /\ ticks = 0
    /\ repos = <<>>
    /\ targetRole = ""
    /\ limit = 0
    /\ today = 0
    /\ ranked = <<>>
    /\ tree = <<>>
    /\ maxFiles = 0
    /\ selected = None
    /\ bundle = None
    /\ gov = [w |-> [x \in Workers |-> IdleWorker], served |-> 0, ticks |-> 0,
              last |-> None, prev |-> None, overlap |-> FALSE]
    /\ writes = None

GovFrame == UNCHANGED <<call, outcome, hist, wf, calls, ticks, rankVars, fileVars, bundle,
                        writes>>

\* Some other invocation is between its checkRateLimit and its return.
OthersRunning(x) == \E y \in Workers \ {x} : gov.w[y].pc # "idle"

\* The observation o has just replaced the snapshot.
Applied(g, x, o, t) ==
    [g EXCEPT !.last = Snapshot(o, t), !.prev = g.last,
              !.overlap = @ \/ OthersRunning(x)]

\* fetchWithRetry begins: checkRateLimit up to its first await (lines 165-185).
GovCheck(x) ==
    /\ gov.w[x].pc = "idle"
    /\ LET r == checkRateLimitCached(rateLimitCache, now) IN
       /\ rateLimitCache' = IF r = "clear" THEN None ELSE rateLimitCache
       /\ gov' = [gov EXCEPT !.w[x].pc = CASE r = "throw" -> "idle"
                                           [] r = "refresh" -> "refreshing"
                                           [] OTHER -> "inflight"]
    /\ now' = now
    /\ GovFrame

\* getRateLimit settles inside checkRateLimit (lines 122-137, 188-201); the
\* loop then issues its first fetch.
GovRefreshed(x) ==
    /\ gov.w[x].pc = "refreshing"
    /\ gov.served < MaxObservations
    /\ \E out \in RefreshOutcomes :
         /\ rateLimitCache' = getRateLimit(rateLimitCache, out, now)
         /\ gov' = [(IF out \in RefreshFailures THEN gov ELSE Applied(gov, x, out, now))
                       EXCEPT !.w[x].pc = "inflight", !.served = @ + 1]
    /\ now' = now
    /\ GovFrame

\* The fetch of the loop settles (lines 51-80): the headers are applied, then
\* the invocation returns, rethrows, or sleeps before its next attempt.
GovResponse(x) ==
    /\ gov.w[x].pc = "inflight"
    /\ gov.served < MaxObservations
    /\ \E status \in GovStatuses, h \in HeaderChoices :
         LET whole == status # Transport /\ h \in FullHeaders
             over == status = 200 \/ lastAttempt(gov.w[x].i, DefaultRetries)
         IN
         /\ status = Transport => h = NoHeaders
         /\ rateLimitCache' = observe(rateLimitCache, status, h, now)
         /\ gov' = [(IF whole THEN Applied(gov, x, h, now) ELSE gov)
                       EXCEPT !.w[x] = IF over THEN IdleWorker
                                       ELSE [pc |-> "sleeping", i |-> gov.w[x].i,
                                             wake |-> now + backoff(gov.w[x].i)],
                              !.served = @ + 1]
    /\ now' = now
    /\ GovFrame

\* The backoff timer fires and the next attempt is issued.
GovRetry(x) ==
    /\ gov.w[x].pc = "sleeping"
    /\ now >= gov.w[x].wake
    /\ gov' = [gov EXCEPT !.w[x] = [pc |-> "inflight", i |-> gov.w[x].i + 1, wake |-> 0]]
    /\ UNCHANGED <<now, rateLimitCache>>
    /\ GovFrame

\* Time passes.
GovTick ==
    /\ gov.ticks < MaxGovTicks
    /\ \E d \in GovTickSteps : now' = now + d
    /\ gov' = [gov EXCEPT !.ticks = @ + 1]
    /\ UNCHANGED rateLimitCache
    /\ GovFrame

NextGov ==
    \/ \E x \in Workers : GovCheck(x)
    \/ \E x \in Workers : GovRefreshed(x)
    \/ \E x \in Workers : GovResponse(x)
    \/ \E x \in Workers : GovRetry(x)
    \/ GovTick

SpecGov == InitGov /\ [][NextGov]_vars

----------------------------------------------------------------------------
(* createOrUpdateFile called by two runs of the handler for the same        *)
(* repository and action: same branch gitready/<action>, same path.  The    *)
(* file on the branch is the server's; NoFile stands for "no such file",    *)
(* another number for the blob sha of its current content.                  *)

Runs == {1, 2}
NoFile == 0
InitialFiles == {NoFile, 1}
LookupFailures == {"forbidden", "unavailable"}

IdleRun ==
    [pc |-> "idle", looked |-> "", sha |-> NoFile, i |-> 0, sent |-> None, result |-> ""]

InitWrites ==
    /\ now = 0
    /\ rateLimitCache = None
    /\ call = IdleCall
    /\ outcome = NoOutcome
    /\ hist = NoHist
    /\ wf = NoWorkflow
    /\ calls = 0
    /\ ticks = 0
    /\ repos = <<>>
    /\ targetRole = ""
    /\ limit = 0
    /\ today = 0
    /\ ranked = <<>>
    /\ tree = <<>>
    /\ maxFiles = 0
    /\ selected = None
    /\ bundle = None
    /\ gov = None
    /\ \E f \in InitialFiles : writes = [file |-> f, run |-> [x \in Runs |-> IdleRun]]

WritesFrame == UNCHANGED <<serviceVars, rankVars, fileVars, bundle, gov>>

\* Lines 644-648: the run calls createOrUpdateFile, which sends its lookup.
WrStart(x) ==
    /\ writes.run[x].pc = "idle"
    /\ writes' = [writes EXCEPT !.run[x].pc = "lookup"]
    /\ WritesFrame

\* What the lookup leaves in sha: data.sha of the file when the lookup
\* succeeded, undefined after a 404 or any other failure (catch, lines 651-653).
foundSha(file, failure) == IF failure # "" THEN NoFile ELSE file

\* Lines 649-665: the lookup settles, the body is built, the PUT is sent.
WrLookup(x) ==
    /\ writes.run[x].pc = "lookup"
    /\ \E failure \in {""} \cup LookupFailures :
         writes' = [writes EXCEPT !.run[x].pc = "put",
                                  !.run[x].looked = IF failure # "" THEN failure
                                                    ELSE IF writes.file = NoFile THEN "absent"
                                                    ELSE "found",
                                  !.run[x].sha = foundSha(writes.file, failure)]
    /\ WritesFrame

\* The server applies a PUT: it creates the file when there is none and no sha
\* came, replaces it when the sha is the file's, and rejects the write else.
Accepts(file, sha) == sha = file

\* Lines 665-672: an attempt of the PUT settles; a rejected one is sent again
\* with the same body until the attempts are used up.
WrPut(x) ==
    /\ writes.run[x].pc = "put"
    /\ LET r == writes.run[x]
           sent == [sha |-> r.sha, file |-> writes.file]
       IN
       \E up \in BOOLEAN :
         IF up /\ Accepts(writes.file, r.sha)
         THEN writes' = [writes EXCEPT !.file = @ + 1,
                                       !.run[x] = [r EXCEPT !.pc = "done", !.sent = sent,
                                                            !.result = "written"]]
         ELSE IF lastAttempt(r.i, DefaultRetries)
         THEN writes' = [writes EXCEPT !.run[x] = [r EXCEPT !.pc = "done", !.sent = sent,
                                                            !.result = "failed"]]
         ELSE writes' = [writes EXCEPT !.run[x] = [r EXCEPT !.i = @ + 1, !.sent = sent]]
    /\ WritesFrame

NextWrites ==
    \/ \E x \in Runs : WrStart(x)
    \/ \E x \in Runs : WrLookup(x)
    \/ \E x \in Runs : WrPut(x)

SpecWrites == InitWrites /\ [][NextWrites]_vars

----------------------------------------------------------------------------
(* Properties of the request helpers and of the rate-limit cache *)

Terminal == {"404", "403", "403q"}
Retryable == {"other", "transport"}

HasTerminal == \E k \in 1..Len(hist.resps) : hist.resps[k] \in Terminal
FirstTerminal ==
    CHOOSE k \in 1..Len(hist.resps) :
        /\ hist.resps[k] \in Terminal
        /\ \A j \in 1..(k - 1) : hist.resps[j] \notin Terminal

AllHeaders(h) == h.remaining # Absent /\ h.reset # Absent /\ h.limit # Absent

\* The snapshot is valid, shows remaining below the threshold, and its reset
\* time has not passed.
LowValid(c, t) ==
    /\ c # None
    /\ CacheValid(c, t)
    /\ ~ResetPassed(c, t)
    /\ c.remaining < RATE_LIMIT_THRESHOLD

\* C1: a 404 or a 403 response ends fetchWithRetry: once the first such
\* response has arrived the invocation is over, no backoff sleep was started
\* after it and no further request was issued.
C1_TerminalNotRetried ==
    (call.kind = "fetch" /\ HasTerminal) =>
        /\ call.pc = "done"
        /\ hist.requests = FirstTerminal
        /\ Len(hist.sleeps) = FirstTerminal - 1

\* C2: whenever fetchWithRetry has received a 403 response, the failure it
\* surfaces is the rate-limit failure with that response's reset time if the
\* response's remaining header was 0, and the forbidden failure otherwise.
C2_Classified403 ==
    (call.kind = "fetch" /\ call.pc = "done") =>
        \A k \in 1..Len(hist.resps) :
            /\ hist.resps[k] = "403q" =>
                   /\ outcome.status = "error"
                   /\ outcome.err.kind = "RateLimitExceeded"
                   /\ outcome.err.attempt = k
            /\ hist.resps[k] = "403" =>
                   /\ outcome.status = "error"
                   /\ outcome.err.kind = "Forbidden"
                   /\ outcome.err.attempt = k

\* C3: with retries = 3 and every fetch failing retryably (a non-ok status other
\* than 403/404, or a transport error), a finished invocation has issued
\* exactly 3 requests, slept 1000 ms and then 2000 ms and not again, and throws
\* the error of the third attempt.
C3_BackoffSchedule ==
    (/\ call.pc = "done"
     /\ call.retries = DefaultRetries
     /\ hist.resps # <<>>
     /\ \A k \in 1..Len(hist.resps) : hist.resps[k] \in Retryable) =>
        /\ hist.requests = 3
        /\ Len(hist.resps) = 3
        /\ hist.sleeps = <<1000, 2000>>
        /\ outcome.status = "error"
        /\ outcome.err.attempt = 3
        /\ outcome.err.kind \in {"ApiError", "HttpError", "Transport"}

C3_Witness ==
    /\ call.pc = "done"
    /\ call.kind = "fetch"
    /\ hist.resps = <<"other", "transport", "other">>
    /\ hist.sleeps = <<1000, 2000>>
    /\ outcome.err.kind = "ApiError"

\* C4: when checkRateLimit has returned normally (the first fetch of the loop
\* is in flight), the cache does not hold a valid snapshot with remaining
\* below 10 and a reset time still to come.
C4_NoPassOnLowSnapshot ==
    (call.pc = "inflight" /\ call.i = 0) => ~LowValid(rateLimitCache, now)

\* C5: a snapshot whose reset time has passed counts as replenished:
\* getCachedRateLimit reports remaining = limit, and checkRateLimit, entered
\* with such a snapshot (valid or stale, whatever its remaining), does not
\* throw and the request is issued.
C5_ResetReplenishes ==
    /\ (rateLimitCache # None /\ ResetPassed(rateLimitCache, now)) =>
           getCachedRateLimit(rateLimitCache, now).remaining = rateLimitCache.limit
    /\ (hist.pre # None /\ hist.pre.passed) =>
           /\ hist.check # "throw"
           /\ outcome.err.kind # "Threshold"
           /\ call.pc # "refreshing" => hist.requests >= 1

C5_Witness ==
    /\ hist.pre # None
    /\ hist.pre.passed /\ hist.pre.low /\ hist.pre.valid
    /\ call.pc = "inflight"
    /\ hist.requests = 1

\* C6: when getRateLimit() fails inside checkRateLimit (the cache was absent or
\* stale), checkRateLimit returns normally, the request is issued, and the
\* cache is what it was before the call.
C6_FailOpen ==
    hist.refresh \in {"transport", "badbody"} =>
        /\ hist.pre = None \/ ~hist.pre.valid
        /\ outcome.err.kind # "Threshold"
        /\ hist.requests >= 1
        /\ (call.pc = "inflight" /\ call.i = 0) => rateLimitCache = hist.snap

C6_Witness ==
    /\ hist.refresh = "transport"
    /\ hist.pre # None
    /\ call.pc = "inflight" /\ call.i = 0
    /\ rateLimitCache # None
    /\ hist.requests = 1

\* C7: a response replaces the snapshot by its remaining, limit and reset
\* values stamped with the current time if it carries all three headers
\* (remaining = 0 included), and leaves the snapshot unchanged otherwise.
C7_ObserveAllOrNothing ==
    [][(call.pc = "inflight" /\ call'.pc # "inflight" /\ hist'.hdr # None) =>
          rateLimitCache' =
              IF AllHeaders(hist'.hdr)
              THEN [remaining |-> hist'.hdr.remaining, reset |-> hist'.hdr.reset,
                    limit |-> hist'.hdr.limit, lastChecked |-> now']
              ELSE rateLimitCache]_vars

C7_Witness ==
    /\ hist.hdr # None
    /\ AllHeaders(hist.hdr)
    /\ hist.hdr.remaining = 0
    /\ hist.snap = None
    /\ hist.pre # None /\ ~hist.pre.low
    /\ rateLimitCache # None
    /\ rateLimitCache.remaining = 0
    /\ rateLimitCache.lastChecked = now

\* C8: every snapshot the cache holds has remaining <= limit, given that each
\* response and each /rate_limit body reports remaining <= limit.
C8_RemainingWithinLimit ==
    rateLimitCache # None => rateLimitCache.remaining <= rateLimitCache.limit

C8_Witness ==
    /\ hist.refresh = "ok"
    /\ hist.hdr # None /\ AllHeaders(hist.hdr)
    /\ rateLimitCache # None
    /\ rateLimitCache.limit = 12
    /\ hist.pre # None

----------------------------------------------------------------------------
(* Properties of the contribution workflow *)

Succeeded == wf.pc = "done" /\ wf.result.http = 200

\* The log holds, in this order, a call of each of the listed methods on the
\* listed owners.
RECURSIVE SubsequenceFrom(_, _, _)
SubsequenceFrom(entries, k, j) ==
    IF k > Len(entries) THEN TRUE
    ELSE IF j > Len(wf.log) THEN FALSE
    ELSE IF wf.log[j] = entries[k] THEN SubsequenceFrom(entries, k + 1, j + 1)
    ELSE SubsequenceFrom(entries, k, j + 1)

LoggedInOrder(entries) == SubsequenceFrom(entries, 1, 1)

HasLogged(op) == \E k \in 1..Len(wf.log) : wf.log[k].op = op

\* The run went through the fork fallback: user, fork, availability poll and
\* branch creation on the fork owner, then commit there and the pull request.
WentThroughFork ==
    LoggedInOrder(<<[op |-> "createRef", on |-> Owner],
                    [op |-> "getAuthenticatedUser", on |-> ""],
                    [op |-> "forkRepo", on |-> Owner],
                    [op |-> "getRepoDetails", on |-> wf.prHeadOwner],
                    [op |-> "createRef", on |-> wf.prHeadOwner],
                    [op |-> "putContents", on |-> wf.prHeadOwner],
                    [op |-> "createPullRequest", on |-> Owner]>>)

\* C9 as claimed: a successful run whose branch creation on the upstream owner
\* failed with a 403 went through the fork fallback and opened the pull request
\* with the head `<forkOwner>:<branchName>`.
C9_ForkHeadQualified ==
    (Succeeded /\ (wf.refStatus = 403 \/ wf.baseRefStatus = 403)) =>
        /\ WentThroughFork
        /\ wf.pr.head = [qual |-> wf.prHeadOwner, branch |-> branchName(wf.action)]

\* C9 amended: such a run went through the fork fallback, and its pull request
\* has the head `<forkOwner>:<branchName>` when the fork owner (the
\* authenticated login) differs from the upstream owner, and the bare branch
\* name when the login is the upstream owner itself; no pull request whose
\* branch lives under another owner than the upstream's has a bare head.
C9_ForkHeadQualifiedUnlessOwner ==
    /\ (Succeeded /\ (wf.refStatus = 403 \/ wf.baseRefStatus = 403)) =>
           /\ WentThroughFork
           /\ wf.pr.head =
                  IF wf.prHeadOwner # Owner
                  THEN [qual |-> wf.prHeadOwner, branch |-> branchName(wf.action)]
                  ELSE [qual |-> "", branch |-> branchName(wf.action)]
    /\ (wf.pr # None /\ wf.prHeadOwner # Owner) => wf.pr.head.qual = wf.prHeadOwner

C9_Witness ==
    /\ Succeeded
    /\ wf.refStatus = 403
    /\ wf.prHeadOwner = Me
    /\ wf.pr.head = [qual |-> Me, branch |-> branchName("readme")]
    /\ WentThroughFork

\* C10: when the ref creation on the upstream owner ends with a 422, the
\* workflow neither aborts nor forks: the next call is the file lookup of the
\* commit on the same owner, and a run that succeeds has committed there and
\* opened the pull request with the bare branch name.
C10_ExistingBranchIsSuccess ==
    (wf.refStatus = 422 /\ wf.action \in ValidActions) =>
        /\ wf.prHeadOwner = Owner
        /\ ~HasLogged("getAuthenticatedUser")
        /\ ~HasLogged("forkRepo")
        /\ \E k \in 1..(Len(wf.log) - 1) :
               /\ wf.log[k] = [op |-> "createRef", on |-> Owner]
               /\ wf.log[k + 1] = [op |-> "getContents", on |-> Owner]
        /\ Succeeded =>
               /\ LoggedInOrder(<<[op |-> "createRef", on |-> Owner],
                                  [op |-> "putContents", on |-> Owner],
                                  [op |-> "createPullRequest", on |-> Owner]>>)
               /\ wf.pr.head = [qual |-> "", branch |-> branchName(wf.action)]

C10_Witness ==
    /\ Succeeded
    /\ wf.refStatus = 422
    /\ wf.pr.head = [qual |-> "", branch |-> branchName("readme")]
    /\ ~HasLogged("forkRepo")

LastLogged == IF wf.log = <<>> THEN [op |-> "", on |-> ""] ELSE wf.log[Len(wf.log)]

ErrorAnswer(w) == w.pc = "done" /\ ~Ok(w.result.http)

\* C11: when the identity request of the fork fallback has failed, or its
\* answer has no login, the handler's next step answers with the identity
\* failure and calls no further service method.
C11_IdentityFailureIsTerminal ==
    [][(Returned("me") /\ (Failed \/ outcome.body.login = "")) =>
          /\ ErrorAnswer(wf')
          /\ wf'.result.code = "NoIdentity"
          /\ wf'.log = wf.log]_vars

\* The service methods of the workflow; none of them deletes or reverts.
WorkflowOps ==
    {"getRepoDetails", "getRef", "createRef", "getAuthenticatedUser", "forkRepo",
     "getContents", "putContents", "createPullRequest"}

\* The failures the workflow recovers from: a refused or already satisfied
\* branch creation, a failed lookup before the write, a failed poll of the wait.
Recoverable(pc, e) ==
    \/ pc \in {"lookup", "waitPoll"}
    \/ pc \in {"getRef", "createRef"} /\ e.status = 403
    \/ pc \in {"createRef", "forkCreateRef"} /\ e.status = 422

StepFailed ==
    /\ wf.pc \notin {"off", "done", "waitSleep"}
    /\ call.pc = "done"
    /\ outcome.status = "error"
    /\ ~Recoverable(wf.pc, outcome.err)

C13_WaitEndsWithDetailsOrError ==
    [][(wf.pc \in {"waitPoll", "waitSleep"} /\ wf'.pc \notin {"waitPoll", "waitSleep"}) =>
          \/ /\ wf.pc = "waitPoll"
             /\ call.pc = "done"
             /\ outcome.status = "ok"
             /\ outcome.body.full_name
             /\ wf'.pc = "forkDetails"
          \/ /\ wf.pc = "waitSleep"
             /\ now' - wf.start >= WaitTimeout
             /\ ErrorAnswer(wf')
             /\ wf'.log = wf.log
             /\ wf'.result = IF wf.lastError = NoError
                             THEN [http |-> 500, code |-> "Timeout"]
                             ELSE ErrorResponse(wf.lastError)]_vars

C13_Witness ==
    /\ ErrorAnswer(wf)
    /\ wf.result.code = "Timeout"
    /\ now - wf.start >= WaitTimeout
    /\ LastLogged = [op |-> "getRepoDetails", on |-> Me]
    /\ ~HasLogged("putContents")

\* C14: every write is preceded by the lookup of the same path on the same
\* owner; its body carries a sha exactly when the lookup found the file, and
\* then the sha found; after a not-found lookup the write is sent without a
\* sha and the run goes on.
C14_WriteCarriesFoundSha ==
    /\ \A k \in 1..Len(wf.log) :
           wf.log[k].op = "putContents" =>
               k > 1 /\ wf.log[k - 1] = [op |-> "getContents", on |-> wf.log[k].on]
    /\ wf.lookup # "" =>
           /\ wf.write # None
           /\ HasLogged("putContents")
           /\ ("sha" \in DOMAIN wf.write) <=> (wf.lookup = "found")
           /\ wf.lookup = "found" => wf.write.sha = "abc"
           /\ wf.lookup = "NotFound" => wf.write = [branch |-> branchName(wf.action)]

C14_Witness ==
    /\ Succeeded
    /\ wf.lookup = "NotFound"
    /\ wf.write = [branch |-> branchName("readme")]

\* C15: the base branch is the default branch of the upstream repository, or
\* main when its details name none, and stays what it was resolved to; every
\* pull request is opened on the upstream owner's repository against that
\* branch, whatever the fork's default branch is.
C15_PullRequestOnUpstreamBase ==
    [][/\ (Returned("details") /\ ~Failed) =>
              wf'.baseBranch = IF outcome.body.default_branch = "" THEN "main"
                               ELSE outcome.body.default_branch
       /\ wf.baseBranch # "" => wf'.baseBranch = wf.baseBranch
       /\ wf'.pr # None =>
              /\ wf'.pr.owner = Owner
              /\ wf'.pr.base = wf'.baseBranch
              /\ wf'.baseBranch \in {"main", "dev"}
              /\ LastLogged' = [op |-> "createPullRequest", on |-> Owner]]_vars

C15_Witness ==
    /\ Succeeded
    /\ wf.prHeadOwner = Me
    /\ wf.baseBranch = "main"
    /\ wf.forkBaseBranch = "dev"
    /\ wf.pr.owner = Owner
    /\ wf.pr.base = "main"

\* C16: every failed run answers with a non-2xx status, and a run that fails
\* on a 403 of the code host (thrown by the call awaited, or kept as the last
\* error of the wait) answers 403 with the code PAT_SCOPE_INSUFFICIENT.
C16_ForbiddenReportedAsScope ==
    [][(wf.pc # "done" /\ wf'.pc = "done" /\ wf'.result.code # "pr") =>
          /\ ~Ok(wf'.result.http)
          /\ (\/ call.pc = "done" /\ outcome.status = "error" /\ outcome.err.status = 403
              \/ wf.pc = "waitSleep" /\ wf.lastError.status = 403) =>
                 wf'.result = [http |-> 403, code |-> "PAT_SCOPE_INSUFFICIENT"]]_vars

\* C17: a request without owner or action, or with an action other than
\* readme, tests, ci, is answered 400, and whenever the answer is 400 no
\* service method was called.
C17_ValidatedBeforeAnyRequest ==
    /\ (wf.pc = "done" /\ wf.action \notin ValidActions) => wf.result.http = 400
    /\ (wf.pc = "done" /\ wf.result.http = 400) => wf.log = <<>>

----------------------------------------------------------------------------
(* Properties of the ranking *)

\* The sum of the signals as the specification lists them, for a descriptor
\* looked at on day t.
Points(cond, points) == IF cond THEN points ELSE 0

ListedScore(repo, role, t) ==
    LET pushed == repo.pushed_at # Absent
        days == t - repo.pushed_at
        roleSet == IF role \in DOMAIN roleLanguages THEN roleLanguages[role] ELSE {}
    IN  (IF repo.stargazers_count >= 10 THEN 30
         ELSE Points(repo.stargazers_count >= 3, 15))
      + (IF repo.forks_count >= 5 THEN 25 ELSE Points(repo.forks_count >= 2, 10))
      + (IF pushed /\ days < 30 THEN 20 ELSE Points(pushed /\ days < 90, 10))
      + (IF repo.commit_count >= 50 THEN 20 ELSE Points(repo.commit_count >= 20, 10))
      + Points(repo.language \in roleSet, 15)
      + Points(repo.has_readme, 10)
      + Points(repo.has_tests, 15)
      + Points(repo.has_ci, 10)
      + Points(repo.topics # Absent /\ repo.topics > 0, 5)

\* C18: every entry rankReposByImportance returns carries the sum of the
\* listed signals of its descriptor for the role and the day of the
\* invocation; the score lies in 0..150; the descriptor with 12 stars, 6
\* forks, pushed 10 days ago, 60 commits, a matching language, README, tests,
\* CI and topics scores 150.
C18_ScoreIsSumOfSignals ==
    \A r \in 1..Len(ranked) : \A k \in 1..Len(ranked[r].out) :
        LET e == ranked[r].out[k] IN
        /\ e.score = ListedScore(e.repo, targetRole, ranked[r].at)
        /\ e.score \in 0..150
        /\ (e.repo = ExampleRepo /\ targetRole = "Frontend" /\ ranked[r].at = Today0) =>
               e.score = 150

C18_Witness ==
    /\ targetRole = "Frontend"
    /\ repos = <<ExampleRepo>>
    /\ Len(ranked) >= 1
    /\ ranked[1].at = Today0
    /\ ranked[1].out[1].repo = ExampleRepo
    /\ ranked[1].out[1].score = 150
    /\ Len(ranked[1].out[1].reasons) = 9

\* The scores of the descriptors passed, on day t.
ScoresAt(t) ==
    [i \in 1..Len(repos) |-> calculateRepoImportance(repos[i], targetRole, t)]

\* Where the i-th descriptor passed belongs: behind every descriptor with a
\* higher score and every earlier descriptor with the same score.
Place(scores, i) ==
    1 + Cardinality({j \in 1..Len(scores) : scores[j].score > scores[i].score})
      + Cardinality({j \in 1..(i - 1) : scores[j].score = scores[i].score})

\* C19: rankReposByImportance returns min(limit, number of descriptors)
\* entries in non-increasing score order; a descriptor is returned exactly
\* when fewer than `limit` descriptors come before it by score, ties going to
\* the earlier descriptor, and it stands at that place.
C19_TopNStableDescending ==
    \A r \in 1..Len(ranked) :
        LET out == ranked[r].out
            scores == ScoresAt(ranked[r].at)
        IN
        /\ Len(out) = IF limit < Len(repos) THEN limit ELSE Len(repos)
        /\ \A k \in 1..(Len(out) - 1) : out[k].score >= out[k + 1].score
        /\ \A i \in 1..Len(repos) :
               Place(scores, i) <= limit =>
                   /\ Place(scores, i) <= Len(out)
                   /\ out[Place(scores, i)] = scores[i]

C19_Witness ==
    /\ targetRole = "Mobile"
    /\ repos = <<TenStars, FiveForksTopics, ExampleRepo>>
    /\ limit = 2
    /\ Len(ranked) >= 1
    /\ ranked[1].out[1].repo = ExampleRepo
    /\ ranked[1].out[2].repo = TenStars
    /\ ranked[1].out[2].score = 30
    /\ calculateRepoImportance(FiveForksTopics, targetRole, ranked[1].at).score = 30

\* C20: any two invocations of rankReposByImportance with the same
\* descriptors, role and limit return the same list, whenever they are made.
C20_SameArgumentsSameRanking ==
    \A r1, r2 \in 1..Len(ranked) : ranked[r1].out = ranked[r2].out

----------------------------------------------------------------------------
(* Further properties of the request helpers and of the fork fallback *)

\* C26: no attempt after the first is in flight while the cache holds a valid
\* snapshot with remaining below 10 and a reset time still to come.
C26_GovernorBeforeEveryAttempt ==
    (call.pc = "inflight" /\ call.i > 0) => ~LowValid(rateLimitCache, now)

\* C27: when a helper has raised the failure of a response, or returned it,
\* and the response carried all three quota headers, the cache holds that
\* response's remaining, limit and reset, stamped with the current time.
C27_HeadersAppliedBeforeClassified ==
    (call.pc \in {"done", "sleeping"} /\ hist.hdr # None /\ AllHeaders(hist.hdr)) =>
        rateLimitCache = [remaining |-> hist.hdr.remaining, reset |-> hist.hdr.reset,
                          limit |-> hist.hdr.limit, lastChecked |-> now]

C27_Witness ==
    /\ call.pc = "done"
    /\ outcome.status = "error"
    /\ outcome.err.kind = "RateLimitExceeded"
    /\ hist.hdr = [remaining |-> 0, limit |-> 12, reset |-> 100]
    /\ hist.pre # None /\ ~hist.pre.low
    /\ rateLimitCache.remaining = 0
    /\ rateLimitCache.lastChecked = now

\* The failure kind fetchWithRetry gives a response of each terminal class.
KindOfClass(class) ==
    CASE class = "404" -> "NotFound"
      [] class = "403q" -> "RateLimitExceeded"
      [] class = "403" -> "Forbidden"
      [] OTHER -> "other"

\* C28: requestWithRetry treats a sequence of responses as fetchWithRetry is
\* specified to: the first 404 or 403 ends the invocation without a further
\* request or sleep, and the failure surfaced is the not-found, forbidden or
\* rate-limit failure of that response.
C28_WritesFollowReadPolicy ==
    (call.kind = "request" /\ HasTerminal) =>
        /\ call.pc = "done"
        /\ hist.requests = FirstTerminal
        /\ Len(hist.sleeps) = FirstTerminal - 1
        /\ outcome.err.kind = KindOfClass(hist.resps[FirstTerminal])

\* C29: an invocation issues at most `retries` requests; a 2xx response is the
\* last response of its invocation, which returns it, having issued one
\* request per response and slept only between them.
C29_BoundedAttemptsFirstSuccessReturned ==
    /\ hist.requests <= call.retries
    /\ \A k \in 1..Len(hist.resps) :
           hist.resps[k] = "ok" =>
               /\ k = Len(hist.resps)
               /\ call.pc = "done"
               /\ outcome.status = "ok"
               /\ hist.requests = k
               /\ Len(hist.sleeps) = k - 1

C29_Witness ==
    /\ call.pc = "done"
    /\ call.retries = DefaultRetries
    /\ hist.resps = <<"other", "ok">>
    /\ hist.requests = 2
    /\ hist.sleeps = <<1000>>
    /\ outcome.status = "ok"

\* C30: the identity request of the fork fallback has been made exactly when
\* the base-ref read or the ref creation on the upstream owner failed with a
\* 403; after any other failure of the two the run has ended with an error and
\* made no identity, fork, commit or pull-request call.
C30_ForkFallbackIffForbidden ==
    /\ HasLogged("getAuthenticatedUser") <=>
           (wf.baseRefStatus = 403 \/ wf.refStatus = 403)
    /\ (wf.baseRefStatus \notin {0, 403} \/ wf.refStatus \notin {0, 201, 403, 422}) =>
           /\ ErrorAnswer(wf)
           /\ ~HasLogged("getAuthenticatedUser")
           /\ ~HasLogged("forkRepo")
           /\ ~HasLogged("putContents")
           /\ ~HasLogged("createPullRequest")

----------------------------------------------------------------------------
(* Properties of the file filter *)

\* C21: filterAndPrioritizeFiles returns at most maxFiles items; each is a
\* blob item of the tree passed, and no item of the tree is returned twice.
C21_AtMostMaxFilesBlobsOfTree ==
    selected # None =>
        /\ Len(selected.items) <= maxFiles
        /\ \A k \in 1..Len(selected.items) :
               /\ selected.items[k].type = "blob"
               /\ \E i \in 1..Len(tree) : tree[i] = selected.items[k]
        /\ \A k, m \in 1..Len(selected.items) :
               k # m => selected.items[k].path # selected.items[m].path

C21_Witness ==
    /\ selected # None
    /\ maxFiles = 1
    /\ Len(tree) = 3
    /\ tree[1].type = "tree"
    /\ tree[2].path = "README.md"
    /\ tree[3].path = "src/index.ts"
    /\ selected.items = <<tree[3]>>

\* The ancestors of a path: the directories it lies under, as paths.
RECURSIVE Ancestors(_, _)
Ancestors(path, i) ==
    IF i > Len(path) THEN {}
    ELSE (IF Char(path, i) = "/" THEN {SubSeq(path, 1, i - 1)} ELSE {})
         \cup Ancestors(path, i + 1)

\* The path lies under the directory d: some ancestor is d or ends with /d.
Under(path, d) ==
    \E a \in Ancestors(path, 1) : a = d \/ endsWith(a, "/" \o d)

\* C22: no returned path lies under a directory of SKIP_DIRECTORIES, the
\* two-segment entries public/assets and static/assets included.
C22_NothingUnderNoiseDirectory ==
    selected # None =>
        \A k \in 1..Len(selected.items) : \A d \in SKIP_DIRECTORIES :
            ~Under(selected.items[k].path, d)

IndexOf(items, path) ==
    IF \E k \in 1..Len(items) : items[k].path = path
    THEN CHOOSE k \in 1..Len(items) : items[k].path = path
    ELSE 0

\* C23: when the tree holds a root README.md and a file under tests/ of the
\* same size and both pass the filter, the README comes before the tests
\* file in what is returned, and the tests file is not returned without it.
C23_ReadmeBeforeTests ==
    selected # None =>
        \A i, j \in 1..Len(tree) :
            (/\ tree[i].path = "README.md"
             /\ startsWith(tree[j].path, "tests/")
             /\ tree[i].size = tree[j].size
             /\ relevant(tree[i]) /\ relevant(tree[j])) =>
                LET r == IndexOf(selected.items, tree[i].path)
                    t == IndexOf(selected.items, tree[j].path)
                IN /\ t # 0 => r # 0
                   /\ (r # 0 /\ t # 0) => r < t

C23_Witness ==
    /\ selected # None
    /\ targetRole = "Frontend"
    /\ maxFiles = 1
    /\ tree = <<TreeItem("tests/App.test.tsx", 100), TreeItem("README.md", 100)>>
    /\ selected.items = <<TreeItem("README.md", 100)>>

----------------------------------------------------------------------------
(* Properties of the code bundle *)

ManifestPaths == {bundle.files[k].path : k \in 1..Len(bundle.files)}

\* C24: the manifest never has more than maxFiles entries; every entry has an
\* allowed extension and a size not above maxFileSize; every file contributes
\* at most one piece of text to the bundle, of at most maxFileSize characters.
C24_BundleWithinLimits ==
    bundle # None =>
        /\ Len(bundle.files) <= bundle.maxFiles
        /\ \A k \in 1..Len(bundle.files) :
               /\ \E ext \in allowExt : endsWith(toLowerCase(bundle.files[k].path), ext)
               /\ bundle.files[k].size <= bundle.maxFileSize
        /\ \A k \in 1..Len(bundle.code) :
               /\ bundle.code[k].length \in 1..bundle.maxFileSize
               /\ bundle.code[k].path \in ManifestPaths
        /\ \A k, m \in 1..Len(bundle.code) :
               k # m => bundle.code[k].path # bundle.code[m].path

C24_Witness ==
    /\ bundle # None
    /\ bundle.pc = "done"
    /\ bundle.maxFiles = 4
    /\ Len(bundle.files) = 4
    /\ bundle.code # <<>>
    /\ bundle.code[1] = [path |-> "README.md", length |-> 5]

Eligible(it) ==
    /\ it.type = "file"
    /\ \E ext \in allowExt : endsWith(toLowerCase(it.name), ext)
    /\ sizeOf(it) <= bundle.maxFileSize

\* C25: once the traversal is over and the cap was not reached, every
\* directory found in a listing that succeeded has itself been listed or has
\* failed, and every eligible file of a listing that succeeded is in the
\* manifest, whatever listings failed; files come only from listings that
\* succeeded.
C25_FailedListingSkipsOnlyItsSubtree ==
    (bundle # None /\ bundle.pc # "listing") =>
        /\ bundle.listed \cap bundle.failed = {}
        /\ (bundle.maxFiles > 0) => "" \in bundle.listed \cup bundle.failed
        /\ Len(bundle.files) < bundle.maxFiles =>
               \A d \in bundle.listed : \A k \in 1..Len(RepoListing[d]) :
                   LET it == RepoListing[d][k] IN
                   /\ it.type = "dir" => it.path \in bundle.listed \cup bundle.failed
                   /\ Eligible(it) => it.path \in ManifestPaths
        /\ \A k \in 1..Len(bundle.files) :
               \E d \in bundle.listed : \E j \in 1..Len(RepoListing[d]) :
                   RepoListing[d][j].path = bundle.files[k].path

C25_Witness ==
    /\ bundle # None
    /\ bundle.pc = "done"
    /\ bundle.failed = {"src"}
    /\ bundle.listed = {"", "docs"}
    /\ "docs/guide.md" \in ManifestPaths
    /\ "src/a.ts" \notin ManifestPaths

----------------------------------------------------------------------------
(* Order of the requests of one workflow run *)

\* The step calls the service method op.
Calls(op) ==
    /\ Len(wf'.log) = Len(wf.log) + 1
    /\ wf'.log[Len(wf'.log)].op = op

BranchReady == ~Failed \/ outcome.err.status = 422

\* C31: a service method is called only when the previous one has returned
\* (no request in flight, no retry pending); createOrUpdateFile is called only
\* when the creation of the branch on the head owner has returned with success
\* or with 422, its PUT follows its own lookup; createPullRequest is called
\* only when the PUT has returned with success.
C31_EachStepGatesTheNext ==
    [][/\ Len(wf'.log) > Len(wf.log) => call.pc \in {"idle", "done"}
       /\ Calls("getContents") =>
              /\ wf.pc \in {"createRef", "forkCreateRef"}
              /\ call.pc = "done"
              /\ BranchReady
              /\ LastLogged = [op |-> "createRef", on |-> wf'.prHeadOwner]
       /\ Calls("putContents") =>
              /\ wf.pc = "lookup"
              /\ call.pc = "done"
              /\ LastLogged = [op |-> "getContents", on |-> wf'.prHeadOwner]
       /\ Calls("createPullRequest") =>
              /\ wf.pc = "put"
              /\ call.pc = "done"
              /\ ~Failed
              /\ LastLogged = [op |-> "putContents", on |-> wf.prHeadOwner]]_vars

C31_Witness ==
    /\ wf.pc = "pr"
    /\ call.pc = "inflight"
    /\ WentThroughFork
    /\ wf.lookup = "found"

\* C32: while the handler waits for the fork, a request for the fork's
\* repository details is in flight only before WaitTimeout has elapsed since
\* the wait began.
C32_NoPollRequestPastDeadline ==
    (wf.pc = "waitPoll" /\ call.pc = "inflight") => now - wf.start < WaitTimeout

----------------------------------------------------------------------------
(* Forbidden failures outside branch creation *)

\* A 403 of either helper, or the quota failure of checkRateLimit.
Forbidden(e) == e.status = 403 \/ e.kind \in {"Threshold", "RateLimitExceeded"}

\* The service calls of the run other than the branch creation on the upstream
\* owner and the polls of the wait.
OtherSteps ==
    {"details", "me", "fork", "forkDetails", "forkGetRef", "forkCreateRef",
     "lookup", "put", "pr"}

\* C33: when a service call of the run other than the upstream branch creation
\* has failed with a 403 or a quota failure, the handler's next step answers
\* with that failure and calls nothing more.
C33_ForbiddenElsewhereAborts ==
    [][(wf.pc \in OtherSteps /\ call.pc = "done" /\ Failed /\ Forbidden(outcome.err)) =>
           /\ ErrorAnswer(wf')
           /\ wf'.result = ErrorResponse(outcome.err)
           /\ wf'.log = wf.log]_vars

----------------------------------------------------------------------------
(* The snapshot under concurrent invocations *)

\* C34: whatever the interleaving of the invocations' steps, a snapshot that
\* is held is, in all four values, the observation applied last; it never
\* joins values of two observations.
C34_SnapshotIsLastObservation ==
    rateLimitCache # None => rateLimitCache = gov.last

C34_Witness ==
    /\ gov.overlap
    /\ gov.prev # None
    /\ rateLimitCache # None
    /\ rateLimitCache = gov.last
    /\ gov.prev.limit # gov.last.limit
    /\ gov.prev.remaining # gov.last.remaining
    /\ \E x \in Workers : gov.w[x].pc = "inflight"

----------------------------------------------------------------------------
(* Two runs writing the same file *)

\* C35: every attempt of a commit write carries the sha the file has on the
\* branch when the server applies that attempt, and none exactly when the file
\* does not exist.
C35_WriteCarriesCurrentSha ==
    \A x \in Runs :
        writes.run[x].sent # None => writes.run[x].sent.sha = writes.run[x].sent.file

----------------------------------------------------------------------------
(* Scores and exclusions of the file filter *)

\* The score as the five bonuses add up, the size bonus for every size from 0
\* to SmallFile - 1.
BonusSum(item, role) ==
    LET low == toLowerCase(item.path) IN
      (IF isImportantFile(item.path) THEN 100 ELSE 0)
    + (IF matchesRole(item.path, role) THEN 50 ELSE 0)
    + (IF item.size \in 0..(SmallFile - 1) THEN 20 ELSE 0)
    + (IF \E root \in {"src/", "lib/", "app/"} : startsWith(low, root) THEN 30 ELSE 0)
    + (IF includes(low, ".test.") \/ includes(low, ".spec.") THEN 25 ELSE 0)

\* C36: the score of every file that passes the exclusion filter is the sum of
\* its bonuses; the files returned are in non-increasing order of score, files
\* of equal score in the order of the input.
C36_ScoreIsSumOfBonuses ==
    selected # None =>
        /\ \A k \in 1..Len(tree) :
               relevant(tree[k]) => fileScore(tree[k], targetRole) = BonusSum(tree[k], targetRole)
        /\ \A k, m \in 1..Len(selected.items) :
               k < m =>
                   LET a == selected.items[k]
                       b == selected.items[m]
                   IN \/ fileScore(a, targetRole) > fileScore(b, targetRole)
                      \/ /\ fileScore(a, targetRole) = fileScore(b, targetRole)
                         /\ IndexOf(tree, a.path) < IndexOf(tree, b.path)

\* The four exclusions: a directory, a path with a segment of the noise
\* directories, a file name of the noise files, a size above LargeFile.
Excluded(item) ==
    LET parts == split(item.path) IN
    \/ item.type # "blob"
    \/ \E k \in 1..Len(parts) : parts[k] \in SKIP_DIRECTORIES
    \/ skipPatternTest(parts[Len(parts)])
    \/ item.size # Absent /\ item.size > LargeFile

Remaining == {tree[k] : k \in {j \in 1..Len(tree) : ~Excluded(tree[j])}}

\* C37: when no more than maxFiles files remain after the four exclusions, the
\* files returned are exactly those that remain.
C37_ExactlyTheFourExclusions ==
    (selected # None /\ Cardinality(Remaining) <= maxFiles) =>
        SeqToSet(selected.items) = Remaining

----------------------------------------------------------------------------
(* The traversal of the code bundle *)

Traversing == bundle # None /\ bundle.pc = "listing"

\* C38: the traversal ends; it goes on exactly while the queue holds a
\* directory and fewer than maxFiles files are recorded, and no directory is
\* listed once maxFiles files are recorded.
C38_TraversalHaltsAtCapOrEmptyQueue ==
    /\ [](bundle # None =>
            (bundle.pc = "listing" <=>
                 (bundle.queue # <<>> /\ Len(bundle.files) < bundle.maxFiles)))
    /\ [][(bundle # None /\ Len(bundle'.order) > Len(bundle.order)) =>
              Len(bundle.files) < bundle.maxFiles]_vars
    /\ (Traversing ~> ~Traversing)

C38_Witness ==
    /\ bundle # None
    /\ bundle.pc = "done"
    /\ bundle.maxFiles = 4
    /\ Len(bundle.files) = 4
    /\ bundle.queue # <<>>
    /\ Len(bundle.order) = 3

Depth(path) == Len(split(path))

\* C39: the directories are listed from the root on, none twice, in
\* non-decreasing depth, and the manifest lists the files in non-decreasing
\* depth; an eligible file of a listed directory that the cap left out is no
\* closer to the root than any file of the manifest.
C39_BreadthFirst ==
    bundle # None =>
        /\ bundle.order # <<>> => bundle.order[1] = ""
        /\ \A k, m \in 1..Len(bundle.order) :
               k < m => /\ bundle.order[k] # bundle.order[m]
                        /\ bundle.order[k] # "" =>
                               Depth(bundle.order[k]) <= Depth(bundle.order[m])
        /\ \A k, m \in 1..Len(bundle.files) :
               k < m => Depth(bundle.files[k].path) <= Depth(bundle.files[m].path)
        /\ \A d \in bundle.listed : \A j \in 1..Len(RepoListing[d]) :
               LET it == RepoListing[d][j] IN
               (bundle.pc # "listing" /\ Eligible(it) /\ it.path \notin ManifestPaths) =>
                   \A k \in 1..Len(bundle.files) :
                       Depth(bundle.files[k].path) <= Depth(it.path)

C39_Witness ==
    /\ bundle # None
    /\ bundle.pc = "done"
    /\ bundle.order = <<"", "docs", "src", "src/deep">>
    /\ Len(bundle.files) = 6
    /\ bundle.files[6].path = "src/deep/c.py"
    /\ bundle.files[3].path = "docs/guide.md"
====
